---- MODULE Spec2Model ----
(***************************************************************************)
(* The acquisition agent of the RF telemetry system: the control API       *)
(* (start / stop / configure handlers of agent.py and agent_modified.py),  *)
(* the acquisition loop thread, and the signal source (agent_hal.py, the   *)
(* synthetic source; agent_hal_hardware.py, the instrument-backed source), *)
(* and the distribution hub of the Django side: the ingress views of       *)
(* users/views.py and the WebSocket consumers of users/consumers.py, which *)
(* run as coroutines of one event loop over the channel layer's groups.    *)
(*                                                                         *)
(* Granularity: one step per source statement.  The Flask development      *)
(* server handles every request in a thread of its own, and the loop runs  *)
(* in a daemon thread, so statements of different handlers and of the loop *)
(* interleave; module-level globals (sim_active, sim_thread) and the       *)
(* attributes of the source object are read and written one at a time.     *)
(*                                                                         *)
(* Units: time in ns, sample rate in MSa/s, frequency in MHz, voltages in  *)
(* 0.1 V, phase in multiples of pi/4.  All values of the model are exact   *)
(* in these units.                                                         *)
(***************************************************************************)
EXTENDS Integers, Sequences, FiniteSets, TLC

\* ------------------------------------------------------------- bounds
\* Thread objects a run may hold at once (a finished, unreferenced one is
\* collected and its identity reused).
MaxThreads == 3
\* Request threads of the control API that may be in flight together.
MaxReqs == 2
\* Requests of one run of a specification that bounds its run.
MaxRequests == 3
\* Configure requests of one run of SpecCfg.
MaxCfgRequests == 2
\* WebSocket connections of one run.
MaxConns == 2
\* Complete frames pushed to the ingress in one run of SpecHub.
MaxEmits == 1
\* Complete frames pushed to the ingress in one run of SpecHubCmd.
MaxPushes == 2
\* Commands the subscribers send in one run.
MaxCmds == 2
\* Relayed commands of one run of SpecHubCmd.
MaxBusyCmds == 1
\* Commands of one run of SpecAck.
MaxAcks == 1
\* Ticks of the agent's clock in one run of SpecPipe.
MaxClock == 2
\* Samples of the longest frame in SpecNorm.
MaxSamples == 3
\* Units of time in one run of SpecTick.
MaxTime == 7
\* Calls of connect() and disconnect() in one run of SpecSource.
MaxCalls == 3

\* ---------------------------------------------------- program constants
num_horizontal_divisions == 10
\* 500e6 Sa/s, the rate stored when the time span is not positive.
FallbackRate == 500
\* int(duration_s * sample_rate_hz) with ns and MSa/s: ns * MSa/s = 1e-3 points.
PointsScale == 1000

Threads == 1..MaxThreads
Reqs == 1..MaxReqs
None == 0
Variants == {"sim", "hw"}
Conns == 1..MaxConns

\* ------------------------------------------------------------ helpers
\* Python's int(): truncation toward zero.
TruncDiv(a, b) == IF a >= 0 THEN a \div b ELSE -((-a) \div b)

ParamKeys == {"frequency_hz", "amplitude_v", "frequency_hz2", "amplitude_v2",
              "duration_s", "sample_rate_hz", "noise_v"}

\* A JSON payload: the keys it holds, their values, and the key (if any)
\* whose value float() cannot convert.
Payload(has, val, bad) == [has |-> has, val |-> val, bad |-> bad]
Vals(f, a, f2, a2, d, s, nz) ==
    [frequency_hz |-> f, amplitude_v |-> a, frequency_hz2 |-> f2,
     amplitude_v2 |-> a2, duration_s |-> d, sample_rate_hz |-> s, noise_v |-> nz]
NoVals == Vals(0, 0, 0, 0, 0, 0, 0)
EmptyPayload == Payload({}, NoVals, "none")

\* data.get(key, default)
Get(p, key, default) == IF key \in p.has THEN p.val[key] ELSE default

\* The source object after __init__.
DefaultConfig(v) ==
    IF v = "sim"
    THEN [cosine_frequency_hz |-> 10, cosine_amplitude_v |-> 10,
          cosine_phase_rad |-> 0, noise_amplitude_v |-> 1,
          cosine2_frequency_hz |-> 20, cosine2_amplitude_v |-> 5,
          cosine2_phase_rad |-> 1,
          time_per_div_s |-> 200, num_time_points |-> 1000,
          time_duration_s |-> 200 * num_horizontal_divisions,
          sample_rate_hz |-> (1000 * PointsScale) \div (200 * num_horizontal_divisions)]
    ELSE [cosine_frequency_hz |-> 10, cosine_amplitude_v |-> 10,
          cosine_phase_rad |-> 0, noise_amplitude_v |-> 1,
          cosine2_frequency_hz |-> 0, cosine2_amplitude_v |-> 0,
          cosine2_phase_rad |-> 0,
          time_per_div_s |-> 200, num_time_points |-> 500,
          time_duration_s |-> 200 * num_horizontal_divisions,
          sample_rate_hz |-> (500 * PointsScale) \div (200 * num_horizontal_divisions)]

\* The frame a tick assembles: the values the samples were computed from
\* (n .. rate), the values wave_details reports (wd_*), whether the
\* samples were generated rather than read from the device, and the
\* timestamp.
NoFrame ==
    [made |-> FALSE, synthetic |-> FALSE, n |-> 0, len |-> 0, dur |-> 0,
     amp |-> 0, freq |-> 0, phase |-> 0, noise |-> 0,
     amp2 |-> 0, freq2 |-> 0, phase2 |-> 0, rate |-> 0,
     wd_freq |-> 0, wd_amp |-> 0, wd_freq2 |-> 0, wd_amp2 |-> 0,
     wd_tpd |-> 0, wd_dur |-> 0, wd_rate |-> 0, ts |-> 0]

\* A request thread between requests.
IdleReq ==
    [op |-> "none", pc |-> "idle", resp |-> "none", p |-> EmptyPayload,
     h |-> None, spawned |-> None, conn |-> "none",
     pre |-> [active |-> FALSE, thread |-> None, running |-> FALSE, alive |-> {},
              rf |-> DefaultConfig("sim"), prev |-> "none"],
     freq |-> 0, amp |-> 0, freq2 |-> 0, amp2 |-> 0, dur |-> 0, rate |-> 0,
     noise |-> 0, n |-> 0, tpd |-> 0]

\* consumers.py 8, 12: the groups of the two consumer classes.
NETWORK_DATA_GROUP_NAME == "network_data_group"
RF_SPECTRUM_GROUP_NAME == "rf_spectrum_group"
GroupNames == {RF_SPECTRUM_GROUP_NAME, NETWORK_DATA_GROUP_NAME}
\* RFSpectrumConsumer ("rf") and NetworkDataConsumer ("net").
Kinds == {"rf", "net"}
GroupOf(k) == IF k = "rf" THEN RF_SPECTRUM_GROUP_NAME ELSE NETWORK_DATA_GROUP_NAME

\* A connection slot before its WebSocket is opened.
NoConsumer ==
    [kind |-> "none", st |-> "none", peer |-> "up", h |-> "idle", cur |-> 0,
     joined |-> FALSE, accepted |-> FALSE]

\* A text frame a subscriber sends: text that is not JSON, JSON that is not
\* an object, or an object with (or without: "other", "none") the fields
\* command_type and command.
NoMsg == [form |-> "none", command_type |-> "none", command |-> "none"]
InvalidJson == [form |-> "invalid", command_type |-> "none", command |-> "none"]
NonObject == [form |-> "nonobject", command_type |-> "none", command |-> "none"]
CommandTypes == {"rf_control", "other"}
Commands == {"start_simulation", "start_capture", "bogus"}
Msgs ==
    {[form |-> "object", command_type |-> "rf_control", command |-> cm] : cm \in Commands}
    \cup {[form |-> "object", command_type |-> "other", command |-> "start_simulation"],
          InvalidJson, NonObject}

\* receive() before a message: status_message and
\* command_processed_successfully as initialised at consumers.py 153-154;
\* (history) what the agent answered to the relayed request.
NoCmd == [msg |-> NoMsg, text |-> <<"Command processed.", "">>, ok |-> TRUE,
          fwd |-> 0, agent |-> "none", acks |-> <<>>, done |-> FALSE, lost |-> FALSE]

NoView == [pc |-> "idle", group |-> "none", resp |-> "none", id |-> 0, body |-> "none"]

\* A float: a number, or NaN (float("nan") and the results computed from it).
F(v) == [nan |-> FALSE, v |-> v]
NaN == [nan |-> TRUE, v |-> 0]
FAdd(a, b) == IF a.nan \/ b.nan THEN NaN ELSE F(a.v + b.v)
FSub(a, b) == IF a.nan \/ b.nan THEN NaN ELSE F(a.v - b.v)
FMul(a, b) == IF a.nan \/ b.nan THEN NaN ELSE F(a.v * b.v)
\* Comparisons with NaN are false.
FLe(a, b) == ~a.nan /\ ~b.nan /\ a.v <= b.v
FEq(a, b) == ~a.nan /\ ~b.nan /\ a.v = b.v

\* One acquisition's numbers before it has begun.
NoNorm == [pc |-> "idle", amp |-> F(1), samples |-> <<>>, db |-> <<>>, out |-> <<>>,
           ref |-> F(0)]

\* The source before any call: self.inst (None, an open session, a closed
\* one), the last call, and the calls made with what they returned.
NoCall == [inst |-> "none", op |-> "none", ret |-> "none", raised |-> FALSE,
           was |-> FALSE, log |-> <<>>]

\* The loop on the clock before its thread is started.  n: ticks begun;
\* start, stop: when the running tick began and ended; prev: when the tick
\* before it ended; first: when the first tick began; busy: the processing
\* time of the ticks that have ended.
NoTick == [pc |-> "unborn", active |-> FALSE, n |-> 0, start |-> 0, stop |-> 0,
           prev |-> 0, first |-> 0, busy |-> 0, armed |-> 0]

\* -------------------------------------------------------------- state
VARIABLES
    variant,      \* which agent runs: agent.py + agent_hal.py, or agent_modified.py + agent_hal_hardware.py
    sim_active,   \* module global sim_active
    sim_thread,   \* module global sim_thread / acquisition_thread (None or a thread object)
    connected,    \* source.connected
    rf,           \* the source object's configuration attributes
    thr,          \* each thread object's position in simulation_loop
    fr,           \* each loop thread's locals: the frame of its current tick
    req,          \* each request thread's handler, position and locals
    versions,     \* history: the configurations that were complete (no configure call in progress)
    base,         \* history: the configuration when the running group of configure calls began
    grp,          \* history: the payloads of the configure calls begun since then
    nreq,         \* history: requests begun (counted up to MaxRequests + 2)
    lastDone,     \* history: the handler that answered last
    stopPushes,   \* history: frame pushes begun since the running flag was last cleared
    cons,         \* each WebSocket connection: its consumer's class, lifecycle and handler position, and whether the peer is still there
    groups,       \* the channel layer: the channels of each group
    chan,         \* the channel layer: the group messages queued on each consumer's channel
    sent,         \* history: the frames written to each connection's WebSocket
    owed,         \* history: the frames group_send queued for each connection
    loopBusy,     \* the consumer whose handler holds the event loop in a blocking call (0: none)
    cmd,          \* each consumer's receive(): the message, its locals, and (history) what was forwarded and acknowledged
    view,         \* the ingress view's request
    nemit,        \* history: complete frames pushed to the ingress
    ncmd,         \* history: commands sent by subscribers
    clock,        \* the agent host's clock, as time.time() reads it
    pushed,       \* history: the bodies the ingress accepted, in the order of their arrival (a frame's id is its index)
    tick,         \* the loop's ticks on the clock: position, when the tick began and ended, when the sleep was entered
    call,         \* the source's instrument handle and (history) the last call of connect() or disconnect(): what it returned, whether it raised, the flag before it
    norm          \* one acquisition's numbers: the amplitude configured, the samples, the spectrum and the normalised spectrum

\* What the agent's handlers and loop leave alone: the hub, the clock
\* (which they only read) and the record of the ingress.
hubVars == <<cons, groups, chan, sent, owed, loopBusy, cmd, view, nemit, ncmd,
             clock, pushed, norm, tick, call>>

\* The agent's own state.
agentState == <<variant, sim_active, sim_thread, connected, rf, thr, fr, req,
                versions, base, grp, nreq, lastDone, stopPushes>>

\* What the consumers leave alone: the agent, its clock and the record of
\* the ingress.
agentVars == <<agentState, clock, pushed, norm, tick, call>>

vars == <<variant, sim_active, sim_thread, connected, rf, thr, fr, req,
          versions, base, grp, nreq, lastDone, stopPushes,
          cons, groups, chan, sent, owed, loopBusy, cmd, view, nemit, ncmd,
          clock, pushed, norm, tick, call>>

\* Thread.is_alive(): started and not yet returned.
LoopPcs == {"check", "aq_conn", "aq_n", "aq_time", "aq_main", "aq_noise",
            "aq_sec", "aq_freqs", "aq_ret", "hw_io", "hw_chk", "hw_ret",
            "send", "push", "sleep"}
is_alive(t) == thr[t] \in LoopPcs
Finished(t) == thr[t] \in {"done", "dead"}
AliveLoops == {t \in Threads : is_alive(t)}

\* A loop that cannot return within the join timeout (interval + 0.5 s):
\* inside requests.post (timeout 10 s) or inside a device query (5 s).
Blocked(t) == thr[t] \in {"push", "hw_io"}

InFlight(r) == req[r].pc \notin {"idle", "done"}

\* Thread objects still referenced by a global or a handler's local.
Referenced ==
    {sim_thread} \cup {req[r].h : r \in Reqs} \cup {req[r].spawned : r \in Reqs}
    \cup {req[r].pre.thread : r \in Reqs}
    \cup UNION {req[r].pre.alive : r \in Reqs}
FreeThreads ==
    {t \in Threads : thr[t] = "unborn"
                     \/ (thr[t] \in {"done", "dead", "created"} /\ t \notin Referenced)}
NewThread == CHOOSE t \in FreeThreads : \A u \in FreeThreads : t <= u

\* The state named Running: flag set and the handle's thread alive.
Running == sim_active /\ sim_thread # None /\ is_alive(sim_thread)

Init ==
    /\ variant \in Variants
    /\ sim_active = FALSE
    /\ sim_thread = None
    \* the synthetic source is constructed connected; the hardware source's
    \* constructor calls connect(), which succeeds or not
    /\ connected \in (IF variant = "sim" THEN {TRUE} ELSE BOOLEAN)
    /\ rf = DefaultConfig(variant)
    /\ thr = [t \in Threads |-> "unborn"]
    /\ fr = [t \in Threads |-> NoFrame]
    /\ req = [r \in Reqs |-> IdleReq]
    /\ versions = {DefaultConfig(variant)}
    /\ base = DefaultConfig(variant)
    /\ grp = <<>>
    /\ nreq = 0
    /\ lastDone = "none"
    /\ stopPushes = 0
    /\ cons = [c \in Conns |-> NoConsumer]
    /\ groups = [g \in GroupNames |-> {}]
    /\ chan = [c \in Conns |-> <<>>]
    /\ sent = [c \in Conns |-> <<>>]
    /\ owed = [c \in Conns |-> <<>>]
    /\ loopBusy = 0
    /\ cmd = [c \in Conns |-> NoCmd]
    /\ view = NoView
    /\ nemit = 0
    /\ ncmd = 0
    /\ clock = 0
    /\ pushed = <<>>
    /\ norm = NoNorm
    /\ tick = NoTick
    /\ call = [NoCall EXCEPT !.inst = IF variant = "hw" /\ connected THEN "open" ELSE "none"]


\* ------------------------------------------------- request bookkeeping
\* History: the state a request found when it arrived.
Snapshot ==
    [active |-> sim_active, thread |-> sim_thread, running |-> Running,
     alive |-> AliveLoops, rf |-> rf, prev |-> lastDone]

\* A request arrives at handler `op`, entered at statement `pc`.
Begin(r, op, pc, p) ==
    /\ req[r].pc \in {"idle", "done"}
    /\ req' = [req EXCEPT ![r] = [IdleReq EXCEPT !.op = op, !.pc = pc, !.p = p,
                                                 !.pre = Snapshot]]
    /\ nreq' = IF nreq <= MaxRequests + 1 THEN nreq + 1 ELSE nreq

Goto(r, pc) == req' = [req EXCEPT ![r].pc = pc]

\* The handler returns (or raises, which Flask answers with status 500).
Respond(r, resp) ==
    /\ req' = [req EXCEPT ![r].pc = "done", ![r].resp = resp]
    /\ lastDone' = req[r].op

\* ------------------------------------- handle_start_simulation (agent.py 48-64)
\* ------------------------------------- handle_start_acquisition (agent_modified.py 58-74)
StartsWaitingForThread ==
    {q \in Reqs : req[q].op = "start" /\ InFlight(q) /\ req[q].pc # "st_run"}

BeginStart(r) ==
    /\ Cardinality(FreeThreads) > Cardinality(StartsWaitingForThread)
    /\ Begin(r, "start", "st_active", EmptyPayload)
    /\ UNCHANGED <<hubVars, variant, sim_active, sim_thread, connected, rf, thr, fr,
                   versions, base, grp, lastDone, stopPushes>>

\* line 51, first operand: sim_active
StartCheckActive(r) ==
    /\ req[r].pc = "st_active"
    /\ Goto(r, IF sim_active THEN "st_thread" ELSE "st_conn")
    /\ UNCHANGED <<hubVars, variant, sim_active, sim_thread, connected, rf, thr, fr,
                   versions, base, grp, nreq, lastDone, stopPushes>>

\* line 51, second operand: sim_thread
StartCheckThread(r) ==
    /\ req[r].pc = "st_thread"
    /\ Goto(r, IF sim_thread # None THEN "st_alive" ELSE "st_conn")
    /\ UNCHANGED <<hubVars, variant, sim_active, sim_thread, connected, rf, thr, fr,
                   versions, base, grp, nreq, lastDone, stopPushes>>

\* Line 51 without its third operand's early return: the handler goes on to
\* the connection test whatever is_alive() answers.
StartCheckAliveNoReturn(r) ==
    /\ req[r].pc = "st_alive"
    /\ Goto(r, "st_conn")
    /\ UNCHANGED <<hubVars, variant, sim_active, sim_thread, connected, rf, thr, fr,
                   versions, base, grp, nreq, lastDone, stopPushes>>

\* line 51, third operand: sim_thread.is_alive(), the global read again;
\* line 52: "already active", 200
StartCheckAlive(r) ==
    /\ req[r].pc = "st_alive"
    /\ IF sim_thread = None
       THEN Respond(r, "error500")  \* AttributeError: None has no is_alive
       ELSE IF is_alive(sim_thread)
            THEN Respond(r, "already")
            ELSE Goto(r, "st_conn") /\ UNCHANGED lastDone
    /\ UNCHANGED <<hubVars, variant, sim_active, sim_thread, connected, rf, thr, fr,
                   versions, base, grp, nreq, stopPushes>>

\* line 55: hasattr(source, 'connected') and not source.connected
StartCheckConnected(r) ==
    /\ req[r].pc = "st_conn"
    /\ Goto(r, IF connected THEN "st_set" ELSE "st_connect")
    /\ UNCHANGED <<hubVars, variant, sim_active, sim_thread, connected, rf, thr, fr,
                   versions, base, grp, nreq, lastDone, stopPushes>>

\* connect(): agent_hal.py 38-43 always succeeds; agent_hal_hardware.py 32-50
\* succeeds or catches the error, and sets the flag to what it returns.
ConnectOutcomes == IF variant = "sim" THEN {TRUE} ELSE BOOLEAN

\* Lines 57-58 without the return: a failed connect() falls through to line 60.
StartConnectNoReturn(r) ==
    /\ req[r].pc = "st_connect"
    /\ \E ok \in ConnectOutcomes :
          /\ connected' = ok
          /\ req' = [req EXCEPT ![r].pc = "st_set",
                                ![r].conn = IF ok THEN "ok" ELSE "failed"]
    /\ UNCHANGED <<hubVars, variant, sim_active, sim_thread, rf, thr, fr,
                   versions, base, grp, nreq, lastDone, stopPushes>>

\* lines 57-58: connect(), and the 500 answer when it fails
StartConnect(r) ==
    /\ req[r].pc = "st_connect"
    /\ \E ok \in ConnectOutcomes :
          /\ connected' = ok
          /\ IF ok
             THEN req' = [req EXCEPT ![r].pc = "st_set", ![r].conn = "ok"]
                  /\ UNCHANGED lastDone
             ELSE req' = [req EXCEPT ![r].pc = "done", ![r].resp = "connect_error",
                                     ![r].conn = "failed"]
                  /\ lastDone' = "start"
    /\ UNCHANGED <<hubVars, variant, sim_active, sim_thread, rf, thr, fr,
                   versions, base, grp, nreq, stopPushes>>

\* line 60: sim_active = True
StartSetActive(r) ==
    /\ req[r].pc = "st_set"
    /\ sim_active' = TRUE
    /\ stopPushes' = 0
    /\ Goto(r, "st_new")
    /\ UNCHANGED <<hubVars, variant, sim_thread, connected, rf, thr, fr,
                   versions, base, grp, nreq, lastDone>>

\* line 61: sim_thread = threading.Thread(target=simulation_loop, daemon=True)
StartNewThread(r) ==
    /\ req[r].pc = "st_new"
    /\ FreeThreads # {}
    /\ LET t == NewThread IN
          /\ thr' = [thr EXCEPT ![t] = "created"]
          /\ fr' = [fr EXCEPT ![t] = NoFrame]
          /\ sim_thread' = t
          /\ req' = [req EXCEPT ![r].pc = "st_run", ![r].spawned = t]
    /\ UNCHANGED <<hubVars, variant, sim_active, connected, rf,
                   versions, base, grp, nreq, lastDone, stopPushes>>

\* line 62: sim_thread.start(), on whatever the global holds now;
\* lines 63-64: "started", 200
StartThreadStart(r) ==
    /\ req[r].pc = "st_run"
    /\ IF sim_thread = None
       THEN Respond(r, "error500") /\ UNCHANGED thr   \* AttributeError
       ELSE IF thr[sim_thread] = "created"
            THEN thr' = [thr EXCEPT ![sim_thread] = "check"] /\ Respond(r, "started")
            ELSE Respond(r, "error500") /\ UNCHANGED thr  \* RuntimeError: started twice
    /\ UNCHANGED <<hubVars, variant, sim_active, sim_thread, connected, rf, fr,
                   versions, base, grp, nreq, stopPushes>>

\* ------------------------------------- handle_stop_simulation (agent.py 67-76)
\* ------------------------------------- handle_stop_acquisition (agent_modified.py 77-86)
BeginStop(r) ==
    /\ Begin(r, "stop", "sp_clear", EmptyPayload)
    /\ UNCHANGED <<hubVars, variant, sim_active, sim_thread, connected, rf, thr, fr,
                   versions, base, grp, lastDone, stopPushes>>

\* line 71: sim_active = False
StopClearActive(r) ==
    /\ req[r].pc = "sp_clear"
    /\ sim_active' = FALSE
    /\ stopPushes' = IF sim_active THEN 0 ELSE stopPushes
    /\ Goto(r, "sp_thread")
    /\ UNCHANGED <<hubVars, variant, sim_thread, connected, rf, thr, fr,
                   versions, base, grp, nreq, lastDone>>

\* line 72, first operand: sim_thread
StopCheckThread(r) ==
    /\ req[r].pc = "sp_thread"
    /\ Goto(r, IF sim_thread # None THEN "sp_alive" ELSE "sp_none")
    /\ UNCHANGED <<hubVars, variant, sim_active, sim_thread, connected, rf, thr, fr,
                   versions, base, grp, nreq, lastDone, stopPushes>>

\* line 72, second operand: sim_thread.is_alive(), the global read again
StopCheckAlive(r) ==
    /\ req[r].pc = "sp_alive"
    /\ IF sim_thread = None
       THEN Respond(r, "error500")  \* AttributeError
       ELSE Goto(r, IF is_alive(sim_thread) THEN "sp_join" ELSE "sp_none")
            /\ UNCHANGED lastDone
    /\ UNCHANGED <<hubVars, variant, sim_active, sim_thread, connected, rf, thr, fr,
                   versions, base, grp, nreq, stopPushes>>

\* line 73: sim_thread.join(timeout=...), called on whatever the global holds now
StopJoinCall(r) ==
    /\ req[r].pc = "sp_join"
    /\ IF sim_thread = None \/ thr[sim_thread] = "created"
       THEN Respond(r, "error500")  \* AttributeError / RuntimeError: join before start
       ELSE req' = [req EXCEPT ![r].pc = "sp_wait", ![r].h = sim_thread]
            /\ UNCHANGED lastDone
    /\ UNCHANGED <<hubVars, variant, sim_active, sim_thread, connected, rf, thr, fr,
                   versions, base, grp, nreq, stopPushes>>

\* line 73: join returns because the thread has finished
StopJoinReturn(r) ==
    /\ req[r].pc = "sp_wait"
    /\ Finished(req[r].h)
    /\ Goto(r, "sp_none")
    /\ UNCHANGED <<hubVars, variant, sim_active, sim_thread, connected, rf, thr, fr,
                   versions, base, grp, nreq, lastDone, stopPushes>>

\* line 73: join returns because the timeout (interval + 0.5 s) ran out
StopJoinTimeout(r) ==
    /\ req[r].pc = "sp_wait"
    /\ Blocked(req[r].h)
    /\ Goto(r, "sp_none")
    /\ UNCHANGED <<hubVars, variant, sim_active, sim_thread, connected, rf, thr, fr,
                   versions, base, grp, nreq, lastDone, stopPushes>>

\* Lines 75-76 without line 74: the handle is kept.
StopKeepThread(r) ==
    /\ req[r].pc = "sp_none"
    /\ Respond(r, "stopped")
    /\ UNCHANGED <<hubVars, variant, sim_active, sim_thread, connected, rf, thr, fr,
                   versions, base, grp, nreq, stopPushes>>

\* line 74: sim_thread = None; lines 75-76: "stopped", 200
StopClearThread(r) ==
    /\ req[r].pc = "sp_none"
    /\ sim_thread' = None
    /\ Respond(r, "stopped")
    /\ UNCHANGED <<hubVars, variant, sim_active, connected, rf, thr, fr,
                   versions, base, grp, nreq, stopPushes>>


\* ------------------------------------- handle_configure_cosine (agent.py 79-125)
\* ------------------------------------- handle_configure_oscilloscope (agent_modified.py 89-137)
\* The division of the model's values is exact (see ExactValues).
ExactDiv(a, b) == IF a >= 0 THEN a \div b ELSE -((-a) \div b)

\* The statements that read one parameter each, in the handler's order
\* (agent.py 87-97; agent_modified.py 97-108), then the point count.
CfOrder ==
    IF variant = "sim"
    THEN <<"cf_freq", "cf_amp", "cf_freq2", "cf_amp2", "cf_dur", "cf_rate",
           "cf_noise", "cf_calc">>
    ELSE <<"cf_freq", "cf_amp", "cf_dur", "cf_rate", "cf_noise", "cf_freq2",
           "cf_amp2", "cf_calc">>

\* The assignments of configure_cosine_wave (agent_hal.py 59-72) and of
\* configure_oscilloscope_settings (agent_hal_hardware.py 73-80), in order,
\* then the `if self.time_duration_s > 0`.
CwOrder ==
    IF variant = "sim"
    THEN <<"cw_freq", "cw_amp", "cw_phase", "cw_noise", "cw_freq2", "cw_amp2",
           "cw_phase2", "cw_tpd", "cw_n", "cw_dur", "cw_if">>
    ELSE <<"cw_freq", "cw_amp", "cw_noise", "cw_tpd", "cw_n", "cw_dur", "cw_if">>

After(order, pc) == order[(CHOOSE i \in 1..Len(order) : order[i] = pc) + 1]

CfReadPcs == {"cf_freq", "cf_amp", "cf_freq2", "cf_amp2", "cf_dur", "cf_rate", "cf_noise"}

CfKey(pc) ==
    CASE pc = "cf_freq" -> "frequency_hz"
      [] pc = "cf_amp" -> "amplitude_v"
      [] pc = "cf_freq2" -> "frequency_hz2"
      [] pc = "cf_amp2" -> "amplitude_v2"
      [] pc = "cf_dur" -> "duration_s"
      [] pc = "cf_rate" -> "sample_rate_hz"
      [] pc = "cf_noise" -> "noise_v"

\* The second argument of data.get: the source's attribute, read when the
\* statement runs (agent_modified.py 107-108 takes 0 for the second wave).
CfDefault(pc) ==
    CASE pc = "cf_freq" -> rf.cosine_frequency_hz
      [] pc = "cf_amp" -> rf.cosine_amplitude_v
      [] pc = "cf_freq2" -> IF variant = "sim" THEN rf.cosine2_frequency_hz ELSE 0
      [] pc = "cf_amp2" -> IF variant = "sim" THEN rf.cosine2_amplitude_v ELSE 0
      [] pc = "cf_dur" -> rf.time_duration_s
      [] pc = "cf_rate" -> rf.sample_rate_hz
      [] pc = "cf_noise" -> rf.noise_amplitude_v

\* The handler answers; the configuration is complete again when no other
\* configure call is in progress.
ConfigRespondWith(r, resp, c) ==
    /\ Respond(r, resp)
    /\ versions' = IF \E q \in Reqs \ {r} : req[q].op = "configure" /\ InFlight(q)
                   THEN versions
                   ELSE versions \cup {c}

ConfigRespond(r, resp) == ConfigRespondWith(r, resp, rf)

BeginConfigure(r, p) ==
    /\ Begin(r, "configure", "cf_data", p)
    /\ IF \E q \in Reqs \ {r} : req[q].op = "configure" /\ InFlight(q)
       THEN /\ grp' = IF Len(grp) < MaxRequests THEN Append(grp, p) ELSE grp
            /\ UNCHANGED base
       ELSE /\ grp' = <<p>>
            /\ base' = rf
    /\ UNCHANGED <<hubVars, variant, sim_active, sim_thread, connected, rf, thr, fr,
                   versions, lastDone, stopPushes>>

\* agent.py 81-83: `if not data` answers 400 for an empty object
CfData(r) ==
    /\ req[r].pc = "cf_data"
    /\ IF req[r].p.has = {}
       THEN ConfigRespond(r, "missing_payload")
       ELSE Goto(r, CfOrder[1]) /\ UNCHANGED <<lastDone, versions>>
    /\ UNCHANGED <<hubVars, variant, sim_active, sim_thread, connected, rf, thr, fr,
                   base, grp, nreq, stopPushes>>

\* agent.py 87-97: x = float(data.get(key, source.attribute)); a value float()
\* cannot convert raises ValueError, answered 400 at 121-122
CfRead(r) ==
    /\ req[r].pc \in CfReadPcs
    /\ LET pc == req[r].pc
           v == Get(req[r].p, CfKey(pc), CfDefault(pc))
       IN IF req[r].p.bad = CfKey(pc)
          THEN ConfigRespond(r, "bad_type")
          ELSE /\ req' = [req EXCEPT
                     ![r].pc = After(CfOrder, pc),
                     ![r].freq = IF pc = "cf_freq" THEN v ELSE @,
                     ![r].amp = IF pc = "cf_amp" THEN v ELSE @,
                     ![r].freq2 = IF pc = "cf_freq2" THEN v ELSE @,
                     ![r].amp2 = IF pc = "cf_amp2" THEN v ELSE @,
                     ![r].dur = IF pc = "cf_dur" THEN v ELSE @,
                     ![r].rate = IF pc = "cf_rate" THEN v ELSE @,
                     ![r].noise = IF pc = "cf_noise" THEN v ELSE @]
               /\ UNCHANGED <<lastDone, versions>>
    /\ UNCHANGED <<hubVars, variant, sim_active, sim_thread, connected, rf, thr, fr,
                   base, grp, nreq, stopPushes>>

\* Lines 100-102 without the test: the computed count is stored as it is.
CfCalcUnchecked(r) ==
    /\ req[r].pc = "cf_calc"
    /\ req' = [req EXCEPT ![r].pc = "cf_tpd",
                          ![r].n = TruncDiv(req[r].dur * req[r].rate, PointsScale)]
    /\ UNCHANGED <<hubVars, variant, sim_active, sim_thread, connected, rf, thr, fr,
                   versions, base, grp, nreq, lastDone, stopPushes>>

\* agent.py 100-102: int(duration * rate); not positive keeps source.num_time_points
CfCalc(r) ==
    /\ req[r].pc = "cf_calc"
    /\ LET n == TruncDiv(req[r].dur * req[r].rate, PointsScale)
       IN req' = [req EXCEPT ![r].pc = "cf_tpd",
                             ![r].n = IF n <= 0 THEN rf.num_time_points ELSE n]
    /\ UNCHANGED <<hubVars, variant, sim_active, sim_thread, connected, rf, thr, fr,
                   versions, base, grp, nreq, lastDone, stopPushes>>

\* agent.py 105: duration / source.num_horizontal_divisions
CfTpd(r) ==
    /\ req[r].pc = "cf_tpd"
    /\ req' = [req EXCEPT ![r].pc = "cw_conn",
                          ![r].tpd = ExactDiv(req[r].dur, num_horizontal_divisions)]
    /\ UNCHANGED <<hubVars, variant, sim_active, sim_thread, connected, rf, thr, fr,
                   versions, base, grp, nreq, lastDone, stopPushes>>

\* agent_hal.py 54-56, agent_hal_hardware.py 67-69: not connected returns
\* False, which the handler answers with 500 (agent.py 119-120)
CwConnected(r) ==
    /\ req[r].pc = "cw_conn"
    /\ IF connected
       THEN Goto(r, CwOrder[1]) /\ UNCHANGED <<lastDone, versions>>
       ELSE ConfigRespond(r, "configure_failed")
    /\ UNCHANGED <<hubVars, variant, sim_active, sim_thread, connected, rf, thr, fr,
                   base, grp, nreq, stopPushes>>

\* agent_hal.py 59-72, agent_hal_hardware.py 73-80: one attribute assigned.
\* The handler passes neither phase, so both take the signature's defaults
\* (0 and pi/4); the time span is computed from the attribute just stored.
CwWrite(r) ==
    /\ req[r].pc \in {"cw_freq", "cw_amp", "cw_phase", "cw_noise", "cw_freq2",
                      "cw_amp2", "cw_phase2", "cw_tpd", "cw_n", "cw_dur"}
    /\ LET pc == req[r].pc IN
          /\ rf' = CASE pc = "cw_freq" -> [rf EXCEPT !.cosine_frequency_hz = req[r].freq]
                     [] pc = "cw_amp" -> [rf EXCEPT !.cosine_amplitude_v = req[r].amp]
                     [] pc = "cw_phase" -> [rf EXCEPT !.cosine_phase_rad = 0]
                     [] pc = "cw_noise" -> [rf EXCEPT !.noise_amplitude_v = req[r].noise]
                     [] pc = "cw_freq2" -> [rf EXCEPT !.cosine2_frequency_hz = req[r].freq2]
                     [] pc = "cw_amp2" -> [rf EXCEPT !.cosine2_amplitude_v = req[r].amp2]
                     [] pc = "cw_phase2" -> [rf EXCEPT !.cosine2_phase_rad = 1]
                     [] pc = "cw_tpd" -> [rf EXCEPT !.time_per_div_s = req[r].tpd]
                     [] pc = "cw_n" -> [rf EXCEPT !.num_time_points = req[r].n]
                     [] pc = "cw_dur" -> [rf EXCEPT !.time_duration_s =
                                             rf.time_per_div_s * num_horizontal_divisions]
          /\ Goto(r, After(CwOrder, pc))
    /\ UNCHANGED <<hubVars, variant, sim_active, sim_thread, connected, thr, fr,
                   versions, base, grp, nreq, lastDone, stopPushes>>

\* agent_hal.py 73, agent_hal_hardware.py 81: if self.time_duration_s > 0
CwIf(r) ==
    /\ req[r].pc = "cw_if"
    /\ Goto(r, IF rf.time_duration_s > 0 THEN "cw_rate1" ELSE "cw_rate0")
    /\ UNCHANGED <<hubVars, variant, sim_active, sim_thread, connected, rf, thr, fr,
                   versions, base, grp, nreq, lastDone, stopPushes>>

\* agent_hal.py 74 / 76, agent_hal_hardware.py 82 / 84: the derived rate,
\* from the attributes as they are now.  The synthetic source then returns
\* True (answer 200); the hardware source goes on to write to the device.
\* A time span another thread has set to 0 since the test raises
\* ZeroDivisionError: 500 from the handler (agent.py 123-125), False from
\* the hardware source (agent_hal_hardware.py 122-124).
CwRate(r) ==
    /\ req[r].pc \in {"cw_rate1", "cw_rate0"}
    /\ IF req[r].pc = "cw_rate1" /\ rf.time_duration_s = 0
       THEN /\ UNCHANGED rf
            /\ ConfigRespond(r, IF variant = "sim" THEN "error500" ELSE "configure_failed")
       ELSE /\ rf' = [rf EXCEPT !.sample_rate_hz =
                         IF req[r].pc = "cw_rate1"
                         THEN ExactDiv(rf.num_time_points * PointsScale, rf.time_duration_s)
                         ELSE FallbackRate]
            /\ IF variant = "sim"
               THEN ConfigRespondWith(r, "configured", rf')
               ELSE /\ Goto(r, "cw_scpi")
                    /\ versions' = IF \E q \in Reqs \ {r} :
                                         req[q].op = "configure" /\ InFlight(q)
                                   THEN versions
                                   ELSE versions \cup {rf'}
                    /\ UNCHANGED lastDone
    /\ UNCHANGED <<hubVars, variant, sim_active, sim_thread, connected, thr, fr,
                   base, grp, nreq, stopPushes>>

\* agent_hal_hardware.py 94-124: the settings are written to the device; a
\* VisaIOError returns False (answer 500), otherwise True (answer 200).
CwScpi(r) ==
    /\ req[r].pc = "cw_scpi"
    /\ \E ok \in BOOLEAN :
          ConfigRespond(r, IF ok THEN "configured" ELSE "configure_failed")
    /\ UNCHANGED <<hubVars, variant, sim_active, sim_thread, connected, rf, thr, fr,
                   base, grp, nreq, stopPushes>>

ConfigureStep(r) ==
    \/ CfData(r) \/ CfRead(r) \/ CfCalc(r) \/ CfTpd(r) \/ CwConnected(r)
    \/ CwWrite(r) \/ CwIf(r) \/ CwRate(r) \/ CwScpi(r)

\* What one configure request does to configuration c when it runs alone:
\* the statements above in sequence.
ConfigureResult(c, p, v, conn) ==
    LET freq == Get(p, "frequency_hz", c.cosine_frequency_hz)
        amp == Get(p, "amplitude_v", c.cosine_amplitude_v)
        freq2 == Get(p, "frequency_hz2", IF v = "sim" THEN c.cosine2_frequency_hz ELSE 0)
        amp2 == Get(p, "amplitude_v2", IF v = "sim" THEN c.cosine2_amplitude_v ELSE 0)
        dur == Get(p, "duration_s", c.time_duration_s)
        rate == Get(p, "sample_rate_hz", c.sample_rate_hz)
        noise == Get(p, "noise_v", c.noise_amplitude_v)
        n0 == TruncDiv(dur * rate, PointsScale)
        n == IF n0 <= 0 THEN c.num_time_points ELSE n0
        tpd == ExactDiv(dur, num_horizontal_divisions)
        span == tpd * num_horizontal_divisions
        sr == IF span > 0 THEN ExactDiv(n * PointsScale, span) ELSE FallbackRate
    IN IF p.has = {} \/ p.bad \in p.has \/ ~conn
       THEN c
       ELSE [cosine_frequency_hz |-> freq, cosine_amplitude_v |-> amp,
             cosine_phase_rad |-> IF v = "sim" THEN 0 ELSE c.cosine_phase_rad,
             noise_amplitude_v |-> noise,
             cosine2_frequency_hz |-> IF v = "sim" THEN freq2 ELSE c.cosine2_frequency_hz,
             cosine2_amplitude_v |-> IF v = "sim" THEN amp2 ELSE c.cosine2_amplitude_v,
             cosine2_phase_rad |-> IF v = "sim" THEN 1 ELSE c.cosine2_phase_rad,
             time_per_div_s |-> tpd, num_time_points |-> n,
             time_duration_s |-> span, sample_rate_hz |-> sr]

\* The payloads the clients of the model send.
PFreq == Payload({"frequency_hz"}, Vals(5, 0, 0, 0, 0, 0, 0), "none")
PFull == Payload(ParamKeys, Vals(20, 20, 40, 10, 1000, 1000, 0), "none")
PNoise == Payload({"noise_v"}, Vals(0, 0, 0, 0, 0, 0, -1), "none")
PBad == Payload({"amplitude_v"}, NoVals, "amplitude_v")
\* {"duration_s": 1e-6} and {"duration_s": -1e-6}
PDur == Payload({"duration_s"}, Vals(0, 0, 0, 0, 1000, 0, 0), "none")
PNegSpan == Payload({"duration_s"}, Vals(0, 0, 0, 0, -1000, 0, 0), "none")
\* {"duration_s": 1e-6, "sample_rate_hz": 1e6}: int(1e-6 * 1e6) = 1 point
POne == Payload({"duration_s", "sample_rate_hz"}, Vals(0, 0, 0, 0, 1000, 1, 0), "none")
Payloads == {PFreq, PFull, PNoise, PBad, EmptyPayload}
\* {"frequency_hz": 1e6, "amplitude_v": 2.0, "noise_v": 0.0}
PCal == Payload({"frequency_hz", "amplitude_v", "noise_v"}, Vals(1, 20, 0, 0, 0, 0, 0), "none")
\* The payloads of the acquisition runs: one sample point, a negative span.
AcqPayloads == {POne, PNegSpan}
AllPayloads == Payloads \cup {PDur, PNegSpan}

\* ------------------------------------------ simulation_loop (agent.py 32-41)
\* ------------------------------------------ acquisition_loop (agent_modified.py 35-51)
LoopGoto(t, pc) == thr' = [thr EXCEPT ![t] = pc]

\* The source returned None: `if sim_data` is false, the loop goes to its sleep.
ReturnNone(t) ==
    /\ LoopGoto(t, "sleep")
    /\ fr' = [fr EXCEPT ![t] = NoFrame]

\* line 36: while sim_active
LoopCheck(t) ==
    /\ thr[t] = "check"
    /\ LoopGoto(t, IF sim_active THEN "aq_conn" ELSE "done")
    /\ UNCHANGED <<hubVars, variant, sim_active, sim_thread, connected, rf, fr, req,
                   versions, base, grp, nreq, lastDone, stopPushes>>

\* get_simulated_data, agent_hal.py 85-87; get_real_time_data, agent_hal_hardware.py 131-133
AcqConnected(t) ==
    /\ thr[t] = "aq_conn"
    /\ IF ~connected
       THEN ReturnNone(t)
       ELSE LoopGoto(t, IF variant = "sim" THEN "aq_n" ELSE "hw_io") /\ UNCHANGED fr
    /\ UNCHANGED <<hubVars, variant, sim_active, sim_thread, connected, rf, req,
                   versions, base, grp, nreq, lastDone, stopPushes>>

\* agent_hal.py 89-92: current_num_points = self.num_time_points; <= 0 returns None
AcqNumPoints(t) ==
    /\ thr[t] = "aq_n"
    /\ IF rf.num_time_points <= 0
       THEN ReturnNone(t)
       ELSE /\ LoopGoto(t, "aq_time")
            /\ fr' = [fr EXCEPT ![t].n = rf.num_time_points,
                                ![t].len = rf.num_time_points]
    /\ UNCHANGED <<hubVars, variant, sim_active, sim_thread, connected, rf, req,
                   versions, base, grp, nreq, lastDone, stopPushes>>

\* agent_hal.py 94: np.linspace(0, self.time_duration_s, n, endpoint=False)
AcqTime(t) ==
    /\ thr[t] = "aq_time"
    /\ LoopGoto(t, "aq_main")
    /\ fr' = [fr EXCEPT ![t].dur = rf.time_duration_s]
    /\ UNCHANGED <<hubVars, variant, sim_active, sim_thread, connected, rf, req,
                   versions, base, grp, nreq, lastDone, stopPushes>>

\* agent_hal.py 97-99: amplitude * cos(2 pi f t + phase)
AcqMain(t) ==
    /\ thr[t] = "aq_main"
    /\ LoopGoto(t, "aq_noise")
    /\ fr' = [fr EXCEPT ![t].amp = rf.cosine_amplitude_v,
                        ![t].freq = rf.cosine_frequency_hz,
                        ![t].phase = rf.cosine_phase_rad]
    /\ UNCHANGED <<hubVars, variant, sim_active, sim_thread, connected, rf, req,
                   versions, base, grp, nreq, lastDone, stopPushes>>

\* agent_hal.py 100: np.random.normal(0, self.noise_amplitude_v, n) raises
\* ValueError for a negative scale; nothing in get_simulated_data or in
\* simulation_loop catches it, so the loop thread ends.
AcqNoise(t) ==
    /\ thr[t] = "aq_noise"
    /\ IF rf.noise_amplitude_v < 0
       THEN LoopGoto(t, "dead") /\ fr' = [fr EXCEPT ![t] = NoFrame]
       ELSE LoopGoto(t, "aq_sec")
            /\ fr' = [fr EXCEPT ![t].noise = rf.noise_amplitude_v]
    /\ UNCHANGED <<hubVars, variant, sim_active, sim_thread, connected, rf, req,
                   versions, base, grp, nreq, lastDone, stopPushes>>

\* agent_hal.py 103-105: the secondary wave
AcqSecondary(t) ==
    /\ thr[t] = "aq_sec"
    /\ LoopGoto(t, "aq_freqs")
    /\ fr' = [fr EXCEPT ![t].amp2 = rf.cosine2_amplitude_v,
                        ![t].freq2 = rf.cosine2_frequency_hz,
                        ![t].phase2 = rf.cosine2_phase_rad]
    /\ UNCHANGED <<hubVars, variant, sim_active, sim_thread, connected, rf, req,
                   versions, base, grp, nreq, lastDone, stopPushes>>

\* agent_hal.py 108-115: the spectrum; rfftfreq(n, d = 1 / self.sample_rate_hz)
AcqFreqs(t) ==
    /\ thr[t] = "aq_freqs"
    /\ LoopGoto(t, "aq_ret")
    /\ fr' = [fr EXCEPT ![t].rate = rf.sample_rate_hz]
    /\ UNCHANGED <<hubVars, variant, sim_active, sim_thread, connected, rf, req,
                   versions, base, grp, nreq, lastDone, stopPushes>>

\* agent_hal.py 117-140: the returned dict, wave_details read from self
\* again, "timestamp": time.time()
AcqReturn(t) ==
    /\ thr[t] = "aq_ret"
    /\ LoopGoto(t, "send")
    /\ fr' = [fr EXCEPT ![t].made = TRUE,
                        ![t].wd_freq = rf.cosine_frequency_hz,
                        ![t].wd_amp = rf.cosine_amplitude_v,
                        ![t].wd_freq2 = rf.cosine2_frequency_hz,
                        ![t].wd_amp2 = rf.cosine2_amplitude_v,
                        ![t].wd_tpd = rf.time_per_div_s,
                        ![t].wd_dur = rf.time_duration_s,
                        ![t].wd_rate = rf.sample_rate_hz,
                        ![t].ts = clock]
    /\ UNCHANGED <<hubVars, variant, sim_active, sim_thread, connected, rf, req,
                   versions, base, grp, nreq, lastDone, stopPushes>>

\* Lengths of the waveform a device answer may hold.
DeviceLens == {2, 500}

\* agent_hal_hardware.py 145-166: three writes and two queries to the device
\* (each blocks up to the 5 s VISA timeout), then the answer is parsed.
\* A VisaIOError marks the source disconnected (237-240); an answer float()
\* cannot parse raises ValueError, caught at 241-243; both return None.
HwIo(t) ==
    /\ thr[t] = "hw_io"
    /\ \/ \E len \in DeviceLens :
            /\ LoopGoto(t, "hw_chk")
            /\ fr' = [fr EXCEPT ![t].len = len]
            /\ UNCHANGED connected
       \/ ReturnNone(t) /\ connected' = FALSE
       \/ ReturnNone(t) /\ UNCHANGED connected
    /\ UNCHANGED <<hubVars, variant, sim_active, sim_thread, rf, req,
                   versions, base, grp, nreq, lastDone, stopPushes>>

\* agent_hal_hardware.py 177-194.  Connected: the time axis is built from
\* self.num_time_points and 1 / self.sample_rate_hz.  Not connected any more
\* (another thread cleared the flag since line 131): samples are generated
\* (178-182), and `not amplitude_values` at 196 raises ValueError for an
\* array of two or more samples, is true for one sample equal to 0.0 (both
\* return None), and lets a single non-zero sample through.
HwFallbackCheck(t) ==
    /\ thr[t] = "hw_chk"
    /\ IF connected
       THEN IF rf.sample_rate_hz = 0
            THEN ReturnNone(t)   \* ZeroDivisionError, caught at 241
            ELSE /\ LoopGoto(t, "hw_ret")
                 /\ fr' = [fr EXCEPT ![t].n = rf.num_time_points,
                                     ![t].rate = rf.sample_rate_hz]
       ELSE IF rf.num_time_points = 1 /\ rf.noise_amplitude_v > 0
            THEN /\ LoopGoto(t, "hw_ret")
                 /\ fr' = [fr EXCEPT ![t].synthetic = TRUE,
                                     ![t].n = rf.num_time_points,
                                     ![t].len = rf.num_time_points,
                                     ![t].dur = rf.time_duration_s,
                                     ![t].freq = rf.cosine_frequency_hz,
                                     ![t].noise = rf.noise_amplitude_v,
                                     ![t].rate = rf.sample_rate_hz]
            ELSE ReturnNone(t)
    /\ UNCHANGED <<hubVars, variant, sim_active, sim_thread, connected, rf, req,
                   versions, base, grp, nreq, lastDone, stopPushes>>

\* agent_hal_hardware.py 196-235: the spectrum and the returned dict
HwReturn(t) ==
    /\ thr[t] = "hw_ret"
    /\ LoopGoto(t, "send")
    /\ fr' = [fr EXCEPT ![t].made = TRUE,
                        ![t].wd_freq = rf.cosine_frequency_hz,
                        ![t].wd_amp = rf.cosine_amplitude_v,
                        ![t].wd_tpd = rf.time_per_div_s,
                        ![t].wd_dur = rf.time_duration_s,
                        ![t].wd_rate = fr[t].rate,
                        ![t].ts = clock]
    /\ UNCHANGED <<hubVars, variant, sim_active, sim_thread, connected, rf, req,
                   versions, base, grp, nreq, lastDone, stopPushes>>

\* agent.py 38-39 and 24-26: `if sim_data`, then requests.post(..., timeout=10) is entered
LoopSend(t) ==
    /\ thr[t] = "send"
    /\ LoopGoto(t, "push")
    /\ stopPushes' = IF sim_active THEN stopPushes ELSE stopPushes + 1
    /\ UNCHANGED <<hubVars, variant, sim_active, sim_thread, connected, rf, fr, req,
                   versions, base, grp, nreq, lastDone>>

\* agent.py 26-29: the post returns, or raises a RequestException (ingress
\* unreachable, timeout, error status), which is caught and printed.
PushEnd(t) ==
    /\ thr[t] = "push"
    /\ \E ok \in BOOLEAN :
          /\ LoopGoto(t, "sleep")
          /\ fr' = [fr EXCEPT ![t] = NoFrame]
    /\ UNCHANGED <<hubVars, variant, sim_active, sim_thread, connected, rf, req,
                   versions, base, grp, nreq, lastDone, stopPushes>>

\* agent.py 40: time.sleep(sim_interval_seconds)
LoopSleep(t) ==
    /\ thr[t] = "sleep"
    /\ LoopGoto(t, "check")
    /\ UNCHANGED <<hubVars, variant, sim_active, sim_thread, connected, rf, fr, req,
                   versions, base, grp, nreq, lastDone, stopPushes>>

LoopStep(t) ==
    \/ LoopCheck(t) \/ AcqConnected(t) \/ AcqNumPoints(t) \/ AcqTime(t)
    \/ AcqMain(t) \/ AcqNoise(t) \/ AcqSecondary(t) \/ AcqFreqs(t)
    \/ AcqReturn(t) \/ HwIo(t) \/ HwFallbackCheck(t) \/ HwReturn(t)
    \/ LoopSend(t) \/ PushEnd(t) \/ LoopSleep(t)

StartStep(r) ==
    \/ StartCheckActive(r) \/ StartCheckThread(r)
    \/ StartCheckAlive(r) \/ StartCheckConnected(r) \/ StartConnect(r)
    \/ StartSetActive(r) \/ StartNewThread(r) \/ StartThreadStart(r)

StopStep(r) ==
    \/ StopClearActive(r) \/ StopCheckThread(r)
    \/ StopCheckAlive(r) \/ StopJoinCall(r) \/ StopJoinReturn(r)
    \/ StopJoinTimeout(r) \/ StopClearThread(r)

\* =================================================== the distribution hub
\* The consumers are coroutines of one event loop: a handler runs until
\* its next await, and a handler inside a blocking call keeps the loop.
LoopFree == loopBusy = 0

\* The consumer's dispatch loop awaits each handler before it takes the
\* next message: a consumer is ready when it runs and is in no handler.
Ready(c) == cons[c].st = "run" /\ cons[c].h = "idle" /\ LoopFree

\* self.send / self.accept towards a peer that is gone raises, or the server
\* drops the frame silently.
SendOutcomes(c) == IF cons[c].peer = "up" THEN {"ok"} ELSE {"raises", "dropped"}

\* ------------ RFSpectrumConsumer.connect (consumers.py 118-134)
\* ------------ NetworkDataConsumer.connect (consumers.py 19-35)
\* A WebSocket is opened on one of the two routes; lines 122-125 (24-27):
\* group_add, which stores the channel under the group (a dict keyed by
\* channel name), or raises when the layer cannot be reached: caught at
\* 132-134 (33-35) and answered with close().
WsConnect(c, k) ==
    /\ cons[c].st = "none"
    /\ \A d \in Conns : d < c => cons[d].st # "none"  \* numbered as they are opened
    /\ LoopFree
    /\ \E ok \in BOOLEAN :
          IF ok
          THEN /\ groups' = [groups EXCEPT ![GroupOf(k)] = @ \cup {c}]
               /\ cons' = [cons EXCEPT ![c] = [NoConsumer EXCEPT !.kind = k, !.st = "added",
                                                                 !.joined = TRUE]]
          ELSE /\ UNCHANGED groups
               /\ cons' = [cons EXCEPT ![c] = [NoConsumer EXCEPT !.kind = k, !.st = "run",
                                                                 !.peer = "gone"]]
    /\ UNCHANGED <<agentVars, chan, sent, owed, loopBusy, cmd, view, nemit, ncmd>>

\* line 128 (30): accept(); an exception is caught at 132-134 (33-35) and
\* answered with close()
WsAccept(c) ==
    /\ cons[c].st = "added"
    /\ LoopFree
    /\ \E o \in SendOutcomes(c) :
          cons' = [cons EXCEPT ![c].st =
                      IF o # "raises" /\ cons[c].kind = "rf" THEN "greet" ELSE "run",
                                ![c].accepted = (o # "raises")]
    /\ UNCHANGED <<agentVars, groups, chan, sent, owed, loopBusy, cmd, view, nemit, ncmd>>

\* lines 130-131: the greeting of RFSpectrumConsumer, inside the same try
WsGreet(c) ==
    /\ cons[c].st = "greet"
    /\ LoopFree
    /\ cons' = [cons EXCEPT ![c].st = "run"]
    /\ UNCHANGED <<agentVars, groups, chan, sent, owed, loopBusy, cmd, view, nemit, ncmd>>

\* The client closes the connection, or is lost.
PeerClose(c) ==
    /\ cons[c].st \in {"added", "greet", "run"}
    /\ cons[c].peer = "up"
    /\ cons' = [cons EXCEPT ![c].peer = "gone"]
    /\ UNCHANGED <<agentVars, groups, chan, sent, owed, loopBusy, cmd, view, nemit, ncmd>>

\* The disconnect handler without its group_discard (lines 141-144).
WsDisconnectNoDiscard(c) ==
    /\ Ready(c)
    /\ cons[c].peer = "gone"
    /\ cons' = [cons EXCEPT ![c].st = "stopped"]
    /\ chan' = [chan EXCEPT ![c] = <<>>]
    /\ sent' = [sent EXCEPT ![c] = <<>>]
    /\ owed' = [owed EXCEPT ![c] = <<>>]
    /\ UNCHANGED <<agentVars, groups, loopBusy, cmd, view, nemit, ncmd>>

\* ------------ RFSpectrumConsumer.disconnect (consumers.py 136-148)
\* ------------ NetworkDataConsumer.disconnect (consumers.py 38-48)
\* group_discard removes the channel if it is there; the consumer stops,
\* and with it its channel and the record of what its socket was written.
WsDisconnect(c) ==
    /\ Ready(c)
    /\ cons[c].peer = "gone"
    /\ groups' = [groups EXCEPT ![GroupOf(cons[c].kind)] = @ \ {c}]
    /\ cons' = [cons EXCEPT ![c].st = "stopped"]
    /\ chan' = [chan EXCEPT ![c] = <<>>]
    /\ sent' = [sent EXCEPT ![c] = <<>>]
    /\ owed' = [owed EXCEPT ![c] = <<>>]
    /\ UNCHANGED <<agentVars, loopBusy, cmd, view, nemit, ncmd>>

\* ------------ receive_rf_data_view (views.py 119-151)
\* ------------ receive_packet_view (views.py 79-111)
\* The bodies the ingress is sent: a frame with all the required keys, a
\* JSON object that lacks one, text that is not JSON.
Bodies == {"complete", "missing", "invalid"}
\* And: the frame of the hardware source, and a JSON array whose elements
\* are the names of the required keys.
AllBodies == Bodies \cup {"hardware", "keynames"}

\* The keys of the dict get_simulated_data returns (agent_hal.py 117-140)
\* and of the one get_real_time_data returns (agent_hal_hardware.py 214-235).
FrameKeys(v) ==
    IF v = "sim"
    THEN {"time_s", "amplitude_v_main", "amplitude_v_secondary", "wave_details",
          "fft_frequencies_hz", "fft_power_dbm", "spectrum_details", "timestamp"}
    ELSE {"time_s", "amplitude_v", "wave_details",
          "fft_frequencies_hz", "fft_power_dbm", "spectrum_details", "timestamp"}

\* required_keys of receive_rf_data_view (views.py 125-130) and of
\* receive_packet_view (85).
required_keys(g) ==
    IF g = RF_SPECTRUM_GROUP_NAME
    THEN {"time_s", "amplitude_v_main", "amplitude_v_secondary", "wave_details",
          "fft_frequencies_hz", "fft_power_dbm", "spectrum_details", "timestamp"}
    ELSE {"source_ip", "destination_ip", "protocol", "timestamp"}

\* json.loads succeeds.
Parses(body) == body # "invalid"

\* The body is a JSON object.
IsObject(body) == body \in {"complete", "missing", "hardware"}

\* The x for which `x in data` is true: the keys of an object, the elements
\* of an array.  A complete body holds exactly the keys its view requires
\* (for the RF view, the synthetic source's frame).
Members(body, g) ==
    CASE body = "complete" -> required_keys(g)
      [] body = "missing" -> {"timestamp"}
      [] body = "hardware" -> FrameKeys("hw")
      [] body = "keynames" -> required_keys(g)
      [] OTHER -> {}

\* views.py 121-135 (83-88): parse and test the keys; a body that passes is
\* handed to group_send.  ts and from: the frame's timestamp and the loop
\* thread that posted it (0: another client).
ViewParse(g, body, ts, from) ==
    /\ view.pc \in {"idle", "done"}
    /\ LET passes == Parses(body) /\ required_keys(g) \subseteq Members(body, g) IN
          /\ view' = CASE ~Parses(body) ->
                            [NoView EXCEPT !.pc = "done", !.resp = "bad_json", !.body = body]
                       [] Parses(body) /\ ~passes ->
                            [NoView EXCEPT !.pc = "done", !.resp = "missing_keys",
                                           !.body = body]
                       [] passes ->
                            [NoView EXCEPT !.pc = "send", !.group = g, !.id = nemit + 1,
                                           !.body = body]
          /\ nemit' = IF passes THEN nemit + 1 ELSE nemit
          /\ pushed' = IF passes
                       THEN Append(pushed, [body |-> body, ts |-> ts, from |-> from])
                       ELSE pushed
    /\ UNCHANGED <<cons, groups, chan, sent, owed, loopBusy, cmd, ncmd>>

\* A client posts a body to one of the two views.
ViewBegin(g, body) ==
    /\ ViewParse(g, body, 0, 0)
    /\ UNCHANGED <<agentState, clock, norm, tick, call>>

\* agent.py 24-26 and views.py 119-135: the request of a loop thread that is
\* inside requests.post reaches receive_rf_data_view, with the frame as its
\* body.
ViewBeginFrom(t) ==
    /\ thr[t] = "push"
    /\ \A i \in 1..Len(pushed) : ~(pushed[i].from = t /\ pushed[i].ts = fr[t].ts)
    /\ ViewParse(RF_SPECTRUM_GROUP_NAME,
                 IF variant = "sim" THEN "complete" ELSE "hardware", fr[t].ts, t)
    /\ UNCHANGED <<agentState, clock, norm, tick, call>>

\* Time passes on the agent's host.
ClockTick ==
    /\ clock' = clock + 1
    /\ UNCHANGED <<agentState, cons, groups, chan, sent, owed, loopBusy, cmd, view,
                   nemit, ncmd, pushed, norm, tick, call>>

\* A group_send that writes to the members one after the other and lets
\* the first failure through: with a member whose peer is gone nothing is
\* queued and the view answers 500 (views.py 149-151).
ViewGroupSendAborting ==
    /\ view.pc = "send"
    /\ LoopFree
    /\ LET fails == \E c \in groups[view.group] : cons[c].peer = "gone" IN
          /\ chan' = [c \in Conns |->
                         IF c \in groups[view.group] /\ ~fails
                         THEN Append(chan[c], view.id) ELSE chan[c]]
          /\ view' = [view EXCEPT !.pc = "done",
                                  !.resp = IF fails THEN "error" ELSE "success"]
    /\ owed' = [c \in Conns |->
                   IF c \in groups[view.group] THEN Append(owed[c], view.id) ELSE owed[c]]
    /\ UNCHANGED <<agentVars, cons, groups, sent, loopBusy, cmd, nemit, ncmd>>

\* views.py 137-145 (91-104): async_to_sync(channel_layer.group_send) runs
\* the coroutine on the event loop: one copy of the message is queued on
\* the channel of every member of the group; then the 200 answer.
ViewGroupSend ==
    /\ view.pc = "send"
    /\ LoopFree
    /\ chan' = [c \in Conns |->
                   IF c \in groups[view.group] THEN Append(chan[c], view.id) ELSE chan[c]]
    /\ owed' = [c \in Conns |->
                   IF c \in groups[view.group] THEN Append(owed[c], view.id) ELSE owed[c]]
    /\ view' = [view EXCEPT !.pc = "done", !.resp = "success"]
    /\ UNCHANGED <<agentVars, cons, groups, sent, loopBusy, cmd, nemit, ncmd>>

\* What a consumer writes to its socket for a frame: the type and, as the
\* payload, event['message'] as it came from the channel.
Wire(type, message) == [type |-> type, payload |-> message]

\* The frames (their ids) written to a connection, in order.
SentIds(c) == [i \in 1..Len(sent[c]) |-> sent[c][i].payload]

\* rf_spectrum_update writing under the type of the other consumer.
RfSpectrumUpdateRetyped(c) ==
    /\ Ready(c)
    /\ cons[c].kind = "rf"
    /\ chan[c] # <<>>
    /\ chan' = [chan EXCEPT ![c] = Tail(@)]
    /\ \E o \in SendOutcomes(c) :
          sent' = [sent EXCEPT ![c] =
                      IF o = "ok" THEN Append(@, Wire("network_data", Head(chan[c])))
                                  ELSE @]
    /\ UNCHANGED <<agentVars, cons, groups, owed, loopBusy, cmd, view, nemit, ncmd>>

\* ------------ RFSpectrumConsumer.rf_spectrum_update (consumers.py 220-229)
\* One send, inside try / except Exception.
RfSpectrumUpdate(c) ==
    /\ Ready(c)
    /\ cons[c].kind = "rf"
    /\ chan[c] # <<>>
    /\ chan' = [chan EXCEPT ![c] = Tail(@)]
    /\ \E o \in SendOutcomes(c) :
          sent' = [sent EXCEPT ![c] =
                      IF o = "ok" THEN Append(@, Wire("rf_simulated_data", Head(chan[c])))
                                  ELSE @]
    /\ UNCHANGED <<agentVars, cons, groups, owed, loopBusy, cmd, view, nemit, ncmd>>

\* ------------ NetworkDataConsumer.network_data_message (consumers.py 89-111)
\* lines 95-102: the first send, outside any try: an exception leaves the
\* handler and ends the consumer (its disconnect handler does not run)
NetworkDataMessage(c) ==
    /\ Ready(c)
    /\ cons[c].kind = "net"
    /\ chan[c] # <<>>
    /\ chan' = [chan EXCEPT ![c] = Tail(@)]
    /\ \E o \in SendOutcomes(c) :
          /\ sent' = [sent EXCEPT ![c] =
                         IF o = "ok" THEN Append(@, Wire("network_data", Head(chan[c])))
                                     ELSE @]
          /\ cons' = IF o = "raises"
                     THEN [cons EXCEPT ![c].st = "crashed"]
                     ELSE [cons EXCEPT ![c].h = "net2", ![c].cur = Head(chan[c])]
    /\ UNCHANGED <<agentVars, groups, owed, loopBusy, cmd, view, nemit, ncmd>>

\* lines 103-111: the same payload sent again, inside try / except Exception
NetworkDataMessageAgain(c) ==
    /\ cons[c].st = "run" /\ cons[c].h = "net2" /\ LoopFree
    /\ \E o \in SendOutcomes(c) :
          sent' = [sent EXCEPT ![c] =
                      IF o = "ok" THEN Append(@, Wire("network_data", cons[c].cur)) ELSE @]
    /\ cons' = [cons EXCEPT ![c].h = "idle", ![c].cur = 0]
    /\ UNCHANGED <<agentVars, groups, chan, owed, loopBusy, cmd, view, nemit, ncmd>>

\* ------------ RFSpectrumConsumer.receive (consumers.py 150-218)
\* The commands that are relayed (164-177).
RfRelayed == {"start_simulation", "stop_simulation", "configure_cosine"}

\* lines 153-180 and 201-213: parse, choose the endpoint; with an endpoint
\* the handler enters requests.post (184), which blocks the event loop.
RfReceive(c, m) ==
    /\ Ready(c)
    /\ cons[c].kind = "rf"
    /\ cons[c].peer = "up"
    /\ ncmd' = ncmd + 1
    /\ LET relay == m.form = "object" /\ m.command_type = "rf_control"
                    /\ m.command \in RfRelayed
           text == CASE m.form = "invalid" -> <<"Invalid command format.", "">>
                     [] m.form = "nonobject" -> <<"Error processing command.", "">>
                     [] m.form = "object" /\ m.command_type # "rf_control" ->
                           <<"Unknown command type: ", m.command_type>>
                     [] relay -> <<"Simulation started by agent.", "">>
                     [] OTHER -> <<"Unknown RF command: ", m.command>>
       IN /\ cmd' = [cmd EXCEPT ![c] = [NoCmd EXCEPT !.msg = m, !.text = text,
                                                     !.ok = relay,
                                                     !.fwd = IF relay THEN 1 ELSE 0]]
          /\ cons' = [cons EXCEPT ![c].h = IF relay THEN "relay" ELSE "ack"]
          /\ loopBusy' = IF relay THEN c ELSE 0
    /\ UNCHANGED <<agentVars, groups, chan, sent, owed, view, nemit>>

\* What the relayed request comes back with: 2xx with a status (193-194),
\* 4xx / 5xx (raise_for_status, 185), no answer within 5 s or no connection
\* (197-200), 2xx with a body that is no JSON object (210-213).
RelayOutcomes == {"status", "http_error", "unreachable", "garbled"}

\* Lines 197-200 ending the handler instead of falling through to 215.
RfRelayEndSilent(c) ==
    /\ cons[c].h = "relay"
    /\ loopBusy = c
    /\ \E o \in RelayOutcomes :
          /\ cmd' = [cmd EXCEPT
                        ![c].text = CASE o = "status" -> <<"Agent: ", "status">>
                                      [] o = "garbled" -> <<"Error processing command.", "">>
                                      [] OTHER -> <<"Error relaying to agent: ", cmd[c].msg.command>>,
                        ![c].ok = (o = "status"),
                        ![c].agent = o,
                        ![c].done = (o \in {"http_error", "unreachable"})]
          /\ cons' = [cons EXCEPT ![c].h =
                         IF o \in {"http_error", "unreachable"} THEN "idle" ELSE "ack"]
    /\ loopBusy' = 0
    /\ UNCHANGED <<agentVars, groups, chan, sent, owed, view, nemit, ncmd>>

\* lines 184-200: requests.post returns or raises
RfRelayEnd(c) ==
    /\ cons[c].h = "relay"
    /\ loopBusy = c
    /\ \E o \in RelayOutcomes :
          cmd' = [cmd EXCEPT
                     ![c].text = CASE o = "status" -> <<"Agent: ", "status">>
                                   [] o = "garbled" -> <<"Error processing command.", "">>
                                   [] OTHER -> <<"Error relaying to agent: ", cmd[c].msg.command>>,
                     ![c].ok = (o = "status"),
                     ![c].agent = o]
    /\ cons' = [cons EXCEPT ![c].h = "ack"]
    /\ loopBusy' = 0
    /\ UNCHANGED <<agentVars, groups, chan, sent, owed, view, nemit, ncmd>>

\* Lines 215-218 sending through the group instead of self.send: every
\* member of the consumer's group is written the acknowledgment.
RfAckToGroup(c) ==
    /\ cons[c].st = "run" /\ cons[c].h = "ack" /\ LoopFree
    /\ LET ack == [kind |-> IF cmd[c].ok THEN "command_response" ELSE "error_response",
                   message |-> cmd[c].text]
       IN cmd' = [d \in Conns |->
                    IF d = c
                    THEN [cmd[d] EXCEPT !.acks = Append(@, ack), !.done = TRUE]
                    ELSE IF d \in groups[GroupOf(cons[c].kind)]
                         THEN [cmd[d] EXCEPT !.acks = Append(@, ack)]
                         ELSE cmd[d]]
    /\ cons' = [cons EXCEPT ![c].h = "idle"]
    /\ UNCHANGED <<agentVars, groups, chan, sent, owed, loopBusy, view, nemit, ncmd>>

\* lines 215-218: the acknowledgment, outside any try: an exception ends
\* the consumer
RfAck(c) ==
    /\ cons[c].st = "run" /\ cons[c].h = "ack" /\ LoopFree
    /\ \E o \in SendOutcomes(c) :
          /\ cmd' = [cmd EXCEPT
                        ![c].acks = IF o = "ok"
                                    THEN Append(@, [kind |-> IF cmd[c].ok
                                                             THEN "command_response"
                                                             ELSE "error_response",
                                                    message |-> cmd[c].text])
                                    ELSE @,
                        ![c].lost = (o # "ok"),
                        ![c].done = TRUE]
          /\ cons' = [cons EXCEPT ![c].h = "idle",
                                  ![c].st = IF o = "raises" THEN "crashed" ELSE @]
    /\ UNCHANGED <<agentVars, groups, chan, sent, owed, loopBusy, view, nemit, ncmd>>

\* ------------ NetworkDataConsumer.receive (consumers.py 50-87)
NetRelayed == {"start_capture", "stop_capture"}

\* lines 56-62, 69-70, 84-87: text that json.loads rejects, and JSON without
\* a get method, are printed and nothing is sent; start_capture and
\* stop_capture enter requests.post (64, 72), which blocks the event loop.
NetReceive(c, m) ==
    /\ Ready(c)
    /\ cons[c].kind = "net"
    /\ cons[c].peer = "up"
    /\ ncmd' = ncmd + 1
    /\ LET relay == m.form = "object" /\ m.command \in NetRelayed IN
          IF m.form # "object"
          THEN /\ cmd' = [cmd EXCEPT ![c] = [NoCmd EXCEPT !.msg = m, !.done = TRUE]]
               /\ UNCHANGED <<cons, loopBusy>>
          ELSE /\ cmd' = [cmd EXCEPT ![c] =
                             [NoCmd EXCEPT !.msg = m,
                                           !.text = <<"Unknown command received.", "">>,
                                           !.fwd = IF relay THEN 1 ELSE 0]]
               /\ cons' = [cons EXCEPT ![c].h = IF relay THEN "nrelay" ELSE "nack"]
               /\ loopBusy' = IF relay THEN c ELSE 0
    /\ UNCHANGED <<agentVars, groups, chan, sent, owed, view, nemit>>

\* What the request of NetworkDataConsumer comes back with: an answer of
\* any status (there is no raise_for_status), or no answer within 3 s.
NetRelayOutcomes == {"status", "http_error", "unreachable"}

\* lines 63-68 (71-76): the post returns (whatever its status) or raises
NetRelayEnd(c) ==
    /\ cons[c].h = "nrelay"
    /\ loopBusy = c
    /\ \E o \in NetRelayOutcomes :
          cmd' = [cmd EXCEPT ![c].text =
                     IF o = "unreachable" THEN <<"Error starting agent.", "">>
                                          ELSE <<"Capture started by agent.", "">>,
                             ![c].agent = o]
    /\ cons' = [cons EXCEPT ![c].h = "nack"]
    /\ loopBusy' = 0
    /\ UNCHANGED <<agentVars, groups, chan, sent, owed, view, nemit, ncmd>>

\* lines 79-82: the status update, inside the try (86-87 catch a failed send)
NetAck(c) ==
    /\ cons[c].st = "run" /\ cons[c].h = "nack" /\ LoopFree
    /\ \E o \in SendOutcomes(c) :
          cmd' = [cmd EXCEPT
                     ![c].acks = IF o = "ok"
                                 THEN Append(@, [kind |-> "status_update",
                                                 message |-> cmd[c].text])
                                 ELSE @,
                     ![c].lost = (o # "ok"),
                     ![c].done = TRUE]
    /\ cons' = [cons EXCEPT ![c].h = "idle"]
    /\ UNCHANGED <<agentVars, groups, chan, sent, owed, loopBusy, view, nemit, ncmd>>

ConnectionStep(c) ==
    \/ \E k \in Kinds : WsConnect(c, k)
    \/ WsAccept(c) \/ WsGreet(c) \/ PeerClose(c) \/ WsDisconnect(c)

DeliveryStep(c) ==
    \/ RfSpectrumUpdate(c) \/ NetworkDataMessage(c) \/ NetworkDataMessageAgain(c)

CommandStep(c) ==
    \/ RfRelayEnd(c) \/ RfAck(c) \/ NetRelayEnd(c) \/ NetAck(c)

\* ------------------------------------------ the first sample of a frame
\* np.cos at the phases the main wave can have (multiples of pi/4).
CosPhase(ph) == CASE ph = 0 -> 1 [] ph = 2 -> 0 [] ph = 4 -> -1

\* A generator that draws around the mean whatever the scale.
NoiseDrawsSpread(sigma) == {-1, 0, 1}

\* agent_hal.py 100: np.random.normal(0, sigma, n)[0]; a scale of 0 gives
\* the mean.
NoiseDraws(sigma) == IF sigma = 0 THEN {0} ELSE {-sigma, 0, sigma}

\* agent_hal.py 94-100: time_points_s[0] = 0, so sample 0 of the main wave
\* is amplitude * cos(2 pi f * 0 + phase) plus the first noise draw.
FirstSamples(f) == {f.amp * CosPhase(f.phase) + e : e \in NoiseDraws(f.noise)}

\* ------------------------------------------ connect() and disconnect()
\* What a call of the source's connect() or disconnect() leaves alone.
halRest == <<variant, sim_active, sim_thread, rf, thr, fr, req, versions, base, grp,
             nreq, lastDone, stopPushes, cons, groups, chan, sent, owed, loopBusy,
             cmd, view, nemit, ncmd, clock, pushed, norm, tick>>

\* How far connect() gets in agent_hal_hardware.py 35-40: an error opening
\* the resource (35-36), an error writing to it (37-40), or none.
ConnectSteps == IF variant = "sim" THEN {"done"} ELSE {"no_resource", "io_error", "done"}

\* agent_hal.py 38-43: sets the flag, returns True.
\* agent_hal_hardware.py 32-50: opens the resource and writes to it inside
\* try; both except clauses clear the flag and return False.
HalConnect ==
    /\ \E step \in ConnectSteps :
          /\ connected' = (step = "done")
          /\ call' = [call EXCEPT !.inst = IF variant = "hw" /\ step # "no_resource"
                                            THEN "open" ELSE @,
                                  !.op = "connect",
                                  !.ret = IF step = "done" THEN "true" ELSE "false",
                                  !.raised = FALSE,
                                  !.was = connected,
                                  !.log = Append(@, <<"connect", step = "done">>)]
    /\ UNCHANGED halRest

\* disconnect() of the hardware source without the try around close().
HalDisconnectUnguarded ==
    /\ \E closes \in BOOLEAN :
          IF variant = "hw" /\ call.inst # "none" /\ ~closes
          THEN /\ UNCHANGED connected
               /\ call' = [call EXCEPT !.op = "disconnect", !.ret = "none",
                                       !.raised = TRUE, !.was = connected,
                                       !.log = Append(@, <<"disconnect", FALSE>>)]
          ELSE /\ connected' = FALSE
               /\ call' = [call EXCEPT !.inst = IF variant = "hw" /\ @ # "none"
                                                 THEN "closed" ELSE @,
                                       !.op = "disconnect", !.ret = "none",
                                       !.raised = FALSE, !.was = connected,
                                       !.log = Append(@, <<"disconnect", closes>>)]
    /\ UNCHANGED halRest

\* agent_hal.py 45-48: clears the flag.
\* agent_hal_hardware.py 52-60: `if self.inst`, close() inside try / except
\* Exception, then the flag is cleared.
HalDisconnect ==
    /\ \E closes \in BOOLEAN :
          /\ connected' = FALSE
          /\ call' = [call EXCEPT !.inst = IF variant = "hw" /\ @ # "none" /\ closes
                                            THEN "closed" ELSE @,
                                  !.op = "disconnect", !.ret = "none",
                                  !.raised = FALSE, !.was = connected,
                                       !.log = Append(@, <<"disconnect", closes>>)]
    /\ UNCHANGED halRest

\* ------------------------------------------------ the loop on the clock
\* sim_interval_seconds = 0.1 (agent.py 18, agent_modified.py 20), in units
\* of 50 ms.
sim_interval_seconds == 2

\* What the actions of the loop on the clock leave alone.
tickRest == <<agentState, cons, groups, chan, sent, owed, loopBusy, cmd, view,
              nemit, ncmd, pushed, norm, call>>

\* agent.py 60-62: the start handler sets the flag and starts the thread.
TickSpawn ==
    /\ tick.pc = "unborn"
    /\ tick' = [tick EXCEPT !.pc = "while", !.active = TRUE]
    /\ UNCHANGED <<tickRest, clock>>

\* agent.py 72: the stop handler clears the flag.
TickStop ==
    /\ tick.pc \notin {"unborn", "done"}
    /\ tick.active
    /\ tick' = [tick EXCEPT !.active = FALSE]
    /\ UNCHANGED <<tickRest, clock>>

\* agent.py 36-37: `while sim_active`, then the tick begins with the call
\* of get_simulated_data.
TickWhile ==
    /\ tick.pc = "while"
    /\ IF tick.active
       THEN tick' = [tick EXCEPT !.pc = "acquire", !.n = @ + 1, !.start = clock,
                                 !.prev = tick.stop,
                                 !.first = IF tick.n = 0 THEN clock ELSE @]
       ELSE tick' = [tick EXCEPT !.pc = "done"]
    /\ UNCHANGED <<tickRest, clock>>

\* agent.py 37-39: the acquisition returns a frame, which is pushed, or
\* None, which is not.
TickAcquire ==
    /\ tick.pc = "acquire"
    /\ \E data \in BOOLEAN :
          tick' = IF data THEN [tick EXCEPT !.pc = "push"]
                          ELSE [tick EXCEPT !.pc = "sleep", !.stop = clock,
                                            !.armed = clock,
                                            !.busy = @ + (clock - tick.start)]
    /\ UNCHANGED <<tickRest, clock>>

\* agent.py 39-40 (24-29): the push returns or its exception is caught;
\* time.sleep is entered.
TickPush ==
    /\ tick.pc = "push"
    /\ tick' = [tick EXCEPT !.pc = "sleep", !.stop = clock, !.armed = clock,
                            !.busy = @ + (clock - tick.start)]
    /\ UNCHANGED <<tickRest, clock>>

\* A sleep that ends one interval after the tick began (a fixed-rate
\* schedule).
TickSleepFromStart ==
    /\ tick.pc = "sleep"
    /\ clock >= tick.start + sim_interval_seconds
    /\ tick' = [tick EXCEPT !.pc = "while"]
    /\ UNCHANGED <<tickRest, clock>>

\* agent.py 40: time.sleep(sim_interval_seconds) returns once the interval
\* has passed since it was entered.
TickSleep ==
    /\ tick.pc = "sleep"
    /\ clock >= tick.armed + sim_interval_seconds
    /\ tick' = [tick EXCEPT !.pc = "while"]
    /\ UNCHANGED <<tickRest, clock>>

\* ------------------------------------------------ the spectrum of a frame
\* self.spectrum_ref_level_dbm, set by both constructors and never again.
spectrum_ref_level_dbm == 0

\* The amplitudes a configure request stores: float() of the payload's
\* value, which accepts "nan" (agent.py 88, agent_hal.py 59).
Amplitudes == {F(0), F(1), NaN}

\* The cosine at quarter-period steps.
Cos4(i) == CASE i % 4 = 1 -> 1 [] i % 4 = 3 -> -1 [] OTHER -> 0

\* Levels of a spectrum bin in dB: -240 is 20 * log10(epsilon), the level
\* of an empty bin.
DbValues == {-240, -20, 0}

SeqsOfLen(S, n) == [1..n -> S]

\* np.max: NaN when any element is NaN.
NpMax(s) ==
    IF \E i \in 1..Len(s) : s[i].nan
    THEN NaN
    ELSE F(CHOOSE m \in {s[i].v : i \in 1..Len(s)} : \A i \in 1..Len(s) : s[i].v <= m)

\* /configure_cosine with an amplitude (agent.py 88 and agent_hal.py 59;
\* agent_modified.py 98 and agent_hal_hardware.py 80).
NormConfigure(a) ==
    /\ norm.pc = "idle"
    /\ norm.amp # a
    /\ norm' = [norm EXCEPT !.amp = a]
    /\ UNCHANGED <<agentState, cons, groups, chan, sent, owed, loopBusy, cmd, view,
                   nemit, ncmd, clock, pushed, tick, call>>

\* agent_hal.py 94-100: n samples of amplitude * cos(...) (the noise left
\* out); agent_hal_hardware.py 166: n voltages parsed from the device's
\* answer.
NormSamples(n) ==
    /\ norm.pc = "idle"
    /\ norm' = [norm EXCEPT !.pc = "samples",
                            !.samples = [i \in 1..n |->
                                            IF variant = "sim"
                                            THEN FMul(norm.amp, F(Cos4(i)))
                                            ELSE F(Cos4(i))]]
    /\ UNCHANGED <<agentState, cons, groups, chan, sent, owed, loopBusy, cmd, view,
                   nemit, ncmd, clock, pushed, tick, call>>

\* agent_hal.py 108-111 (agent_hal_hardware.py 202-205): rfft over the n
\* samples gives floor(n / 2) + 1 bins, each a sum over every sample: all
\* bins are NaN when a sample is; 20 * log10(magnitude + epsilon) otherwise.
NormSpectrum ==
    /\ norm.pc = "samples"
    /\ LET k == (Len(norm.samples) \div 2) + 1 IN
          IF \E i \in 1..Len(norm.samples) : norm.samples[i].nan
          THEN norm' = [norm EXCEPT !.pc = "db", !.db = [b \in 1..k |-> NaN]]
          ELSE \E db \in SeqsOfLen(DbValues, k) :
                  norm' = [norm EXCEPT !.pc = "db", !.db = [b \in 1..k |-> F(db[b])]]
    /\ UNCHANGED <<agentState, cons, groups, chan, sent, owed, loopBusy, cmd, view,
                   nemit, ncmd, clock, pushed, tick, call>>

\* agent_hal.py 112 (agent_hal_hardware.py 207):
\* fft_power_dbm = power_spectrum_db - np.max(power_spectrum_db) + ref;
\* the frame reports ref as spectrum_details.ref_level_dbm (134, 229).
NormNormalise ==
    /\ norm.pc = "db"
    /\ norm' = [norm EXCEPT !.pc = "frame",
                            !.ref = F(spectrum_ref_level_dbm),
                            !.out = [b \in 1..Len(norm.db) |->
                                        FAdd(FSub(norm.db[b], NpMax(norm.db)),
                                             F(spectrum_ref_level_dbm))]]
    /\ UNCHANGED <<agentState, cons, groups, chan, sent, owed, loopBusy, cmd, view,
                   nemit, ncmd, clock, pushed, tick, call>>

\* The frame is returned; the next acquisition starts from the same
\* configuration.
NormReturn ==
    /\ norm.pc = "frame"
    /\ norm' = [NoNorm EXCEPT !.amp = norm.amp]
    /\ UNCHANGED <<agentState, cons, groups, chan, sent, owed, loopBusy, cmd, view,
                   nemit, ncmd, clock, pushed, tick, call>>

\* ------------------------------------------------------ specifications
\* Calibration: as NextSeq, with the payload that sets amplitude 2.0 V and
\* no noise and one that leaves both alone.
NextCal ==
    \/ nreq < MaxRequests /\ (BeginStart(1) \/ BeginStop(1))
    \/ \E p \in {PCal, PFreq} : nreq < MaxRequests /\ BeginConfigure(1, p)
    \/ StartStep(1)
    \/ StopStep(1)
    \/ ConfigureStep(1)
    \/ \E t \in Threads : LoopStep(t)

SpecCal == Init /\ [][NextCal]_vars

\* The sample count: start and configure requests handled one at a time
\* with the payloads of the acquisition runs, the loop threads running; a
\* run holds MaxRequests requests.
NextCount ==
    \/ nreq < MaxRequests /\ BeginStart(1)
    \/ \E p \in AcqPayloads : nreq < MaxRequests /\ BeginConfigure(1, p)
    \/ StartStep(1)
    \/ ConfigureStep(1)
    \/ \E t \in Threads : LoopStep(t)

SpecCount == Init /\ [][NextCount]_vars

\* The source alone: connect() and disconnect() called in any order; a run
\* holds MaxCalls calls.
NextSource ==
    \/ Len(call.log) < MaxCalls /\ HalConnect
    \/ Len(call.log) < MaxCalls /\ HalDisconnect

SpecSource == Init /\ [][NextSource]_vars

\* The loop on the clock: one loop thread, time passing while it acquires,
\* pushes and sleeps; a run lasts MaxTime units.
NextTick ==
    \/ TickSpawn
    \/ TickStop
    \/ TickWhile
    \/ TickAcquire
    \/ TickPush
    \/ TickSleep
    \/ clock < MaxTime /\ ClockTick

SpecTick == Init /\ [][NextTick]_vars

\* The spectrum of one frame after another, of up to MaxSamples samples,
\* with configure requests between them.
NextNorm ==
    \/ \E a \in Amplitudes : NormConfigure(a)
    \/ \E n \in 1..MaxSamples : NormSamples(n)
    \/ NormSpectrum
    \/ NormNormalise
    \/ NormReturn

SpecNorm == Init /\ [][NextNorm]_vars

\* Start and stop requests handled concurrently by the request threads of
\* the server; a run holds MaxRequests requests.
Next ==
    \/ \E r \in Reqs : nreq < MaxRequests /\ (BeginStart(r) \/ BeginStop(r))
    \/ \E r \in Reqs : StartStep(r)
    \/ \E r \in Reqs : StopStep(r)
    \/ \E t \in Threads : LoopStep(t)

Spec == Init /\ [][Next]_vars

\* Start and stop requests handled one at a time (one client that waits for
\* each answer); the loop threads run concurrently with the handler.
NextLife ==
    \/ BeginStart(1) \/ BeginStop(1)
    \/ StartStep(1)
    \/ StopStep(1)
    \/ \E t \in Threads : LoopStep(t)

SpecLife == Init /\ [][NextLife]_vars

\* The pipeline under fair scheduling: start and stop requests handled one
\* at a time, the loop threads posting their frames to the RF ingress, one
\* viewer on the RF route that may go away; a run holds MaxRequests - 1
\* requests, MaxPushes accepted frames and MaxClock ticks of the clock.
NextFair ==
    \/ nreq < MaxRequests - 1 /\ (BeginStart(1) \/ BeginStop(1))
    \/ StartStep(1)
    \/ StopStep(1)
    \/ \E t \in Threads : LoopStep(t)
    \/ clock < MaxClock /\ ClockTick
    \/ \E t \in Threads : nemit < MaxPushes /\ ViewBeginFrom(t)
    \/ ViewGroupSend
    \/ WsConnect(1, "rf") \/ WsAccept(1) \/ WsGreet(1)
    \/ PeerClose(1) \/ WsDisconnect(1)
    \/ RfSpectrumUpdate(1)

\* Every thread, request handler and coroutine that can take a step is
\* scheduled, and time passes (weak fairness); the ingress is reachable: a
\* loop that keeps posting has a post reach the view (strong fairness, the
\* post being open only while the loop is inside requests.post), and the
\* source is available: a loop that keeps asking the device gets an answer
\* (strong fairness).  Requests of the operator and the viewer's arrival and
\* departure are not forced.
FairScheduling ==
    /\ WF_vars(StartStep(1))
    /\ WF_vars(StopStep(1))
    /\ \A t \in Threads : WF_vars(LoopStep(t))
    /\ WF_vars(clock < MaxClock /\ ClockTick)
    /\ \A t \in Threads : SF_vars(nemit < MaxPushes /\ ViewBeginFrom(t))
    /\ \A t \in Threads : SF_vars(HwIo(t) /\ thr'[t] = "hw_chk")
    /\ WF_vars(ViewGroupSend)
    /\ WF_vars(WsAccept(1))
    /\ WF_vars(WsGreet(1))
    /\ WF_vars(WsDisconnect(1))
    /\ WF_vars(RfSpectrumUpdate(1))

SpecFair == Init /\ [][NextFair]_vars /\ FairScheduling

\* A loop that died and is started again: start, stop and configure
\* requests handled one at a time, the configure carrying the negative noise
\* level that makes the synthetic loop raise; a run holds MaxRequests + 2
\* requests (start, stop, start, configure, start).
NextRevive ==
    \/ nreq <= MaxRequests + 1 /\ (BeginStart(1) \/ BeginStop(1))
    \/ nreq <= MaxRequests + 1 /\ BeginConfigure(1, PNoise)
    \/ StartStep(1)
    \/ StopStep(1)
    \/ ConfigureStep(1)
    \/ \E t \in Threads : LoopStep(t)

SpecRevive == Init /\ [][NextRevive]_vars

\* Start, stop and configure requests handled one at a time, the loop
\* threads running concurrently; a run holds MaxRequests requests.
NextSeq ==
    \/ nreq < MaxRequests /\ (BeginStart(1) \/ BeginStop(1))
    \/ \E p \in Payloads : nreq < MaxRequests /\ BeginConfigure(1, p)
    \/ StartStep(1)
    \/ StopStep(1)
    \/ ConfigureStep(1)
    \/ \E t \in Threads : LoopStep(t)

SpecSeq == Init /\ [][NextSeq]_vars

\* Acquisition: as NextSeq, with the payloads that change the number of
\* points and the time span; a run holds MaxRequests + 1 requests (a
\* configure, then start, stop and start again).
NextAcq ==
    \/ nreq <= MaxRequests /\ (BeginStart(1) \/ BeginStop(1))
    \/ \E p \in AcqPayloads : nreq <= MaxRequests /\ BeginConfigure(1, p)
    \/ StartStep(1)
    \/ StopStep(1)
    \/ ConfigureStep(1)
    \/ \E t \in Threads : LoopStep(t)

SpecAcq == Init /\ [][NextAcq]_vars

\* The whole pipeline: start, stop and configure requests handled one at a
\* time, the loop threads posting their frames to the RF ingress, and one
\* viewer on the RF route; a run holds MaxRequests requests, MaxPushes
\* accepted frames and MaxClock ticks of the clock.
NextPipe ==
    \/ nreq < MaxRequests /\ (BeginStart(1) \/ BeginStop(1))
    \/ nreq < MaxRequests /\ BeginConfigure(1, PFreq)
    \/ StartStep(1)
    \/ StopStep(1)
    \/ ConfigureStep(1)
    \/ \E t \in Threads : LoopStep(t)
    \/ clock < MaxClock /\ ClockTick
    \/ \E t \in Threads : nemit < MaxPushes /\ ViewBeginFrom(t)
    \/ ViewGroupSend
    \/ WsConnect(1, "rf") \/ WsAccept(1) \/ WsGreet(1)
    \/ RfSpectrumUpdate(1)

SpecPipe == Init /\ [][NextPipe]_vars

\* Configure requests handled concurrently by the request threads; a run
\* holds MaxCfgRequests requests.
NextCfg ==
    \/ \E r \in Reqs, p \in Payloads : nreq < MaxCfgRequests /\ BeginConfigure(r, p)
    \/ \E r \in Reqs : ConfigureStep(r)

SpecCfg == Init /\ [][NextCfg]_vars

\* Configure requests handled one at a time, no loop running, with the
\* payloads that change the time span among them; a run holds MaxRequests
\* requests.
NextConf ==
    \/ \E p \in AllPayloads : nreq < MaxRequests /\ BeginConfigure(1, p)
    \/ ConfigureStep(1)

SpecConf == Init /\ [][NextConf]_vars

\* The hub runs with either agent; the agent's state is left as it starts.
InitHub == Init /\ variant = "sim"

\* Connections alone: WebSockets are opened on the two routes and closed.
NextConn == \E c \in Conns : ConnectionStep(c)

SpecConn == InitHub /\ [][NextConn]_vars

\* Connections and frames: bodies are pushed to the two ingress views and
\* the frames delivered; a run holds MaxEmits complete frames.
NextHub ==
    \/ \E c \in Conns : ConnectionStep(c)
    \/ \E g \in GroupNames, body \in Bodies : nemit < MaxEmits /\ ViewBegin(g, body)
    \/ ViewGroupSend
    \/ \E c \in Conns : DeliveryStep(c)

SpecHub == InitHub /\ [][NextHub]_vars

\* The ingress with every kind of body: an RF frame or a packet, complete
\* or not, text that is no JSON, an array of key names, and the hardware
\* source's frame posted to the RF view; a run holds MaxPushes accepted
\* bodies.
NextIngress ==
    \/ \E c \in Conns : ConnectionStep(c)
    \/ \E g \in GroupNames, body \in Bodies \cup {"keynames"} :
          nemit < MaxPushes /\ ViewBegin(g, body)
    \/ nemit < MaxPushes /\ ViewBegin(RF_SPECTRUM_GROUP_NAME, "hardware")
    \/ ViewGroupSend
    \/ \E c \in Conns : DeliveryStep(c)

SpecIngress == InitHub /\ [][NextIngress]_vars

\* The commands of one subscriber, on either route; a run holds MaxCmds
\* commands.
NextCmd ==
    \/ ConnectionStep(1)
    \/ \E m \in Msgs : ncmd < MaxCmds /\ (RfReceive(1, m) \/ NetReceive(1, m))
    \/ CommandStep(1)

SpecCmd == InitHub /\ [][NextCmd]_vars

\* The commands of one subscriber while the others are connected, on
\* either route; a run holds MaxAcks commands.
NextAck ==
    \/ \E c \in Conns : ConnectionStep(c)
    \/ \E m \in Msgs : ncmd < MaxAcks /\ (RfReceive(1, m) \/ NetReceive(1, m))
    \/ CommandStep(1)

SpecAck == InitHub /\ [][NextAck]_vars

\* Frames and relayed commands together: a run holds MaxPushes complete
\* frames and MaxBusyCmds commands that are relayed to the agent.
RelayedMsgs ==
    {m \in Msgs : /\ m.form = "object" /\ m.command_type = "rf_control"
                  /\ m.command \in {"start_simulation", "start_capture"}}

NextHubCmd ==
    \/ \E c \in Conns : ConnectionStep(c)
    \/ \E g \in GroupNames : nemit < MaxPushes /\ ViewBegin(g, "complete")
    \/ ViewGroupSend
    \/ \E c \in Conns : DeliveryStep(c)
    \/ \E c \in Conns, m \in RelayedMsgs :
          ncmd < MaxBusyCmds /\ (RfReceive(c, m) \/ NetReceive(c, m))
    \/ \E c \in Conns : CommandStep(c)

SpecHubCmd == InitHub /\ [][NextHubCmd]_vars

\* The divisions of the model leave no remainder.
ExactValues ==
    /\ rf.time_duration_s > 0 =>
          (rf.num_time_points * PointsScale) % rf.time_duration_s = 0
    /\ \A r \in Reqs : req[r].dur % num_horizontal_divisions = 0

\* ---------------------------------------------------------------- claims

\* C1: at most one acquisition loop thread is alive at any time, under every
\* interleaving of start and stop requests.
C1_AtMostOneLoopAlive == Cardinality(AliveLoops) <= 1

\* C2: when stop has returned, every loop that was running when the stop
\* request arrived has exited.
C2_StopReturnsAfterLoopExit ==
    \A r \in Reqs :
        (req[r].op = "stop" /\ req[r].pc = "done" /\ req[r].resp = "stopped")
        => \A t \in req[r].pre.alive : ~is_alive(t)

\* The values of configuration c that a frame of the synthetic source is
\* computed from and reports; for the hardware source, the values its time
\* axis is built from and the values it reports.
FrameMatches(f, c) ==
    /\ f.n = c.num_time_points
    /\ f.rate = c.sample_rate_hz
    /\ f.wd_freq = c.cosine_frequency_hz
    /\ f.wd_amp = c.cosine_amplitude_v
    /\ f.wd_tpd = c.time_per_div_s
    /\ f.wd_dur = c.time_duration_s
    /\ f.wd_rate = c.sample_rate_hz
    /\ variant = "sim" =>
          /\ f.dur = c.time_duration_s
          /\ f.freq = c.cosine_frequency_hz
          /\ f.amp = c.cosine_amplitude_v
          /\ f.noise = c.noise_amplitude_v

\* The configuration a configure call in progress is about to complete.
PendingVersions ==
    {ConfigureResult(req[r].pre.rf, req[r].p, variant, TRUE) :
        r \in {q \in Reqs : req[q].op = "configure" /\ InFlight(q)}}

\* C3: every frame a tick produces is computed from one configuration: all
\* the values it used and all the values it reports belong to one of the
\* configurations the source has held, or to the one the configure call in
\* progress is writing.
C3_FrameFromOneConfiguration ==
    \A t \in Threads :
        fr[t].made => \E c \in versions \cup PendingVersions : FrameMatches(fr[t], c)

\* C4: when two configure requests have run concurrently and both have
\* answered, the configuration is what the two give when run one after the
\* other, in one of the two orders.
C4_ConcurrentConfiguresSerialize ==
    (Len(grp) = 2 /\ \A r \in Reqs : req[r].op = "configure" /\ req[r].pc = "done")
    => \/ rf = ConfigureResult(ConfigureResult(base, grp[1], variant, connected),
                               grp[2], variant, connected)
       \/ rf = ConfigureResult(ConfigureResult(base, grp[2], variant, connected),
                               grp[1], variant, connected)

\* C5: a start request that arrives while the state is Running, and whose
\* loop thread stays alive while it is handled, takes the early return: it
\* answers "already active", creates no thread, does not call connect(), and
\* the flag, the handle and the configuration are what they were.
C5_StartWhileRunningIsNoOp ==
    \A r \in Reqs :
        (req[r].op = "start" /\ req[r].pre.running /\ is_alive(req[r].pre.thread))
        => /\ req[r].pc \in {"st_active", "st_thread", "st_alive", "done"}
           /\ req[r].pc = "done" => req[r].resp = "already"
           /\ req[r].spawned = None
           /\ req[r].conn = "none"
           /\ sim_active
           /\ sim_thread = req[r].pre.thread
           /\ rf = req[r].pre.rf

\* A start request that arrived in state Running has answered "already active".
C5_Witness ==
    \E r \in Reqs :
        /\ req[r].op = "start" /\ req[r].pc = "done"
        /\ req[r].pre.running /\ req[r].resp = "already"

\* C6: with requests handled one at a time, a stop request that has answered
\* has answered "stopped", and the flag is false and the handle is None,
\* whatever the state it arrived in (Running, Stopped, right after a stop).
C6_StopIdempotent ==
    \A r \in Reqs :
        (req[r].op = "stop" /\ req[r].pc = "done")
        => /\ req[r].resp = "stopped"
           /\ ~sim_active
           /\ sim_thread = None

\* The second of two stop requests in a row has answered.
C6_Witness ==
    \E r \in Reqs :
        /\ req[r].op = "stop" /\ req[r].pc = "done"
        /\ req[r].pre.prev = "stop" /\ ~req[r].pre.active
        /\ req[r].resp = "stopped"

\* C7: a start request whose connect() failed has answered with the connect
\* error, created no thread and left the flag and the handle as they were;
\* no loop thread is alive that was not alive before, and a state that was
\* not Running is not Running.
C7_FailedConnectStaysStopped ==
    \A r \in Reqs :
        (req[r].op = "start" /\ req[r].conn = "failed")
        => /\ req[r].pc = "done"
           /\ req[r].resp = "connect_error"
           /\ req[r].spawned = None
           /\ sim_active = req[r].pre.active
           /\ sim_thread = req[r].pre.thread
           /\ AliveLoops \subseteq req[r].pre.alive
           /\ ~req[r].pre.running => ~Running

\* A start request that arrived in state Stopped with the source
\* disconnected, and whose connect() failed, has answered.
C7_Witness ==
    \E r \in Reqs :
        /\ req[r].op = "start" /\ req[r].pc = "done"
        /\ req[r].conn = "failed" /\ req[r].resp = "connect_error"
        /\ ~req[r].pre.active /\ req[r].pre.thread = None

\* C8: the state Running is left only by the statement of a stop request
\* that clears the flag.
C8_RunningLeftOnlyByStop ==
    [][(Running /\ ~Running')
        => \E r \in Reqs : /\ req[r].op = "stop"
                            /\ req[r].pc = "sp_clear"
                            /\ req'[r].pc = "sp_thread"]_vars

\* C9: while the flag is cleared (after a stop request, no start request
\* having set it again), at most one frame push is begun.
C9_AtMostOneFrameAfterStop == ~sim_active => stopPushes <= 1

\* A payload with a field the interface rejects: frequency <= 0,
\* amplitude < 0, noise < 0, time span <= 0, or a sample count below 1.
InvalidPayload(p) ==
    \/ "frequency_hz" \in p.has /\ p.val.frequency_hz <= 0
    \/ "frequency_hz2" \in p.has /\ p.val.frequency_hz2 <= 0
    \/ "amplitude_v" \in p.has /\ p.val.amplitude_v < 0
    \/ "amplitude_v2" \in p.has /\ p.val.amplitude_v2 < 0
    \/ "noise_v" \in p.has /\ p.val.noise_v < 0
    \/ "duration_s" \in p.has /\ p.val.duration_s <= 0
    \/ "sample_rate_hz" \in p.has /\ p.val.sample_rate_hz <= 0

\* C10: a configure request with an invalid field has answered with an
\* error, and the configuration is what it was when the request arrived.
C10_InvalidConfigureRejected ==
    \A r \in Reqs :
        (req[r].op = "configure" /\ req[r].pc = "done" /\ InvalidPayload(req[r].p))
        => /\ req[r].resp \in {"bad_type", "missing_payload", "configure_failed", "error500"}
           /\ rf = req[r].pre.rf

\* No configure request is being handled.
ConfigureQuiet == \A r \in Reqs : req[r].op = "configure" => req[r].pc = "done"

\* C11: after any sequence of configure requests the stored configuration
\* has time_span = time_per_div x divisions and
\* sample_rate = sample_count / time_span (here: rate x span = count, in
\* the model's units).
C11_RateSpanCountConsistent ==
    ConfigureQuiet
    => /\ rf.time_duration_s = rf.time_per_div_s * num_horizontal_divisions
       /\ rf.sample_rate_hz * rf.time_duration_s = rf.num_time_points * PointsScale

\* The attribute of the source that parameter `key` of a request is stored in.
FieldOf(c, key) ==
    CASE key = "frequency_hz" -> c.cosine_frequency_hz
      [] key = "amplitude_v" -> c.cosine_amplitude_v
      [] key = "frequency_hz2" -> c.cosine2_frequency_hz
      [] key = "amplitude_v2" -> c.cosine2_amplitude_v
      [] key = "duration_s" -> c.time_duration_s
      [] key = "sample_rate_hz" -> c.sample_rate_hz
      [] key = "noise_v" -> c.noise_amplitude_v

\* C12: after a configure request that was answered with success, every
\* supplied field reads back with the supplied value and every field not
\* supplied (the sample count and the phases among them) has the value it
\* had when the request arrived.
C12_ConfigureRoundTrip ==
    \A r \in Reqs :
        (req[r].op = "configure" /\ req[r].pc = "done" /\ req[r].resp = "configured")
        => /\ \A key \in ParamKeys :
                 FieldOf(rf, key) = IF key \in req[r].p.has
                                    THEN req[r].p.val[key]
                                    ELSE FieldOf(req[r].pre.rf, key)
           /\ rf.num_time_points = req[r].pre.rf.num_time_points
           /\ rf.cosine_phase_rad = req[r].pre.rf.cosine_phase_rad
           /\ rf.cosine2_phase_rad = req[r].pre.rf.cosine2_phase_rad

\* C13: a configure request with any subset of the parameters, each with a
\* valid value, is answered with success (or, with the hardware source, with
\* the failure of the device), and the omitted parameters keep the stored
\* values.
C13_PartialSetsAccepted ==
    \A r \in Reqs :
        (/\ req[r].op = "configure" /\ req[r].pc = "done"
         /\ req[r].p.bad = "none" /\ ~InvalidPayload(req[r].p))
        => /\ \/ req[r].resp = "configured"
              \/ variant = "hw" /\ req[r].resp = "configure_failed"
           /\ \A key \in ParamKeys \ req[r].p.has :
                 FieldOf(rf, key) = FieldOf(req[r].pre.rf, key)

\* The elements of a sequence, and how often one occurs in it.
Range(q) == {q[i] : i \in 1..Len(q)}
Count(q, x) == Cardinality({i \in 1..Len(q) : q[i] = x})

\* A connection whose consumer runs, with the peer there, and which has
\* nothing queued and is in no handler.
Settled(c) ==
    /\ cons[c].st = "run" /\ cons[c].h = "idle" /\ cons[c].peer = "up"
    /\ chan[c] = <<>>

\* C14: one emit delivers exactly one message to each connection joined at
\* that moment: no frame is written twice to a connection, a settled
\* connection has been written exactly the frames that were emitted while
\* it was a member, a connection is written no other frame, and a
\* connection that has left has nothing queued or written for it.
C14_OneMessagePerEmit ==
    \A c \in Conns :
        /\ \A id \in Range(SentIds(c)) : Count(SentIds(c), id) = 1
        /\ Range(SentIds(c)) \subseteq Range(owed[c])
        /\ Settled(c) => SentIds(c) = owed[c]
        /\ cons[c].st = "stopped" => (chan[c] = <<>> /\ sent[c] = <<>>)

\* C15: a push with a complete frame is answered with success whatever the
\* state of the subscribers, and a connection whose peer is there and whose
\* consumer runs has every frame emitted while it was a member either
\* written to it or still queued or in its handler, whatever happened to
\* the deliveries to the others.
C15_FailedDeliveryIsolated ==
    /\ (view.pc = "done" /\ view.id # 0) => view.resp = "success"
    /\ \A c \in Conns :
          (cons[c].st = "run" /\ cons[c].peer = "up")
          => Range(owed[c]) \subseteq
                Range(SentIds(c)) \cup Range(chan[c]) \cup {cons[c].cur}

\* A frame whose delivery to one member failed (its peer is gone) has been
\* written to another member, and the push was answered with success.
C15_Witness ==
    \E c1, c2 \in Conns : \E id \in Range(owed[c1]) :
        /\ c1 # c2
        /\ cons[c1].peer = "gone"
        /\ id \notin Range(SentIds(c1)) /\ id \notin Range(chan[c1])
        /\ id \in Range(SentIds(c2))
        /\ view.pc = "done" /\ view.resp = "success"

\* C16: a connection whose consumer is idle, whose peer is there and which
\* has a frame queued can be delivered that frame, whatever the other
\* subscribers' handlers are doing.
C16_BusySubscriberDoesNotBlock ==
    \A c \in Conns :
        (/\ cons[c].st = "run" /\ cons[c].h = "idle" /\ cons[c].peer = "up"
         /\ chan[c] # <<>>)
        => ENABLED DeliveryStep(c)

C18_ExactlyOneAck ==
    \A c \in Conns :
        /\ Len(cmd[c].acks) <= 1
        /\ (cmd[c].done /\ cmd[c].msg.form = "object" /\ ~cmd[c].lost)
           => Len(cmd[c].acks) = 1

\* A relayed command that the agent did not accept has been acknowledged
\* once, with an error_response.
C18_Witness ==
    \E c \in Conns :
        /\ cmd[c].done /\ cmd[c].fwd = 1
        /\ Len(cmd[c].acks) = 1
        /\ cmd[c].acks[1].kind = "error_response"
        /\ cmd[c].acks[1].message[1] = "Error relaying to agent: "

\* C19: a message that is not valid JSON, or is JSON but no object, is
\* acknowledged (once) to its sender, and the consumer has not ended with
\* an exception.
C19_MalformedMessageRejected ==
    \A c \in Conns :
        (cmd[c].done /\ cmd[c].msg.form \in {"invalid", "nonobject"} /\ ~cmd[c].lost)
        => /\ Len(cmd[c].acks) = 1
           /\ cons[c].st # "crashed"

\* The commands a consumer recognizes.
Recognized(k) == IF k = "rf" THEN RfRelayed ELSE NetRelayed

\* C20: a command whose command value the consumer does not recognize is
\* acknowledged with an error_response that contains the command's name,
\* and nothing is forwarded to the agent.
C20_UnknownCommandNamed ==
    \A c \in Conns :
        (/\ cmd[c].done /\ ~cmd[c].lost
         /\ cmd[c].msg.form = "object" /\ cmd[c].msg.command_type = "rf_control"
         /\ cmd[c].msg.command \notin Recognized(cons[c].kind))
        => /\ cmd[c].fwd = 0
           /\ Len(cmd[c].acks) = 1
           /\ cmd[c].acks[1].kind = "error_response"
           /\ cmd[c].acks[1].message[2] = cmd[c].msg.command

\* An acknowledgment that reports success: a command_response of
\* RFSpectrumConsumer, or the status_update of NetworkDataConsumer that
\* says the capture was started.
AckSuccess(a) ==
    \/ a.kind = "command_response"
    \/ a.kind = "status_update" /\ a.message[1] = "Capture started by agent."

\* C21: a relayed command is acknowledged only after the agent's answer (or
\* the failure to get one) is known, and for the answers the agent can give
\* the acknowledgment reports success exactly when the agent answered with
\* a success status: an error status and an unreachable agent are
\* acknowledged as failures.
C21_AckReportsAgentResult ==
    \A c \in Conns :
        (cmd[c].fwd = 1 /\ Len(cmd[c].acks) = 1)
        => /\ cmd[c].agent # "none"
           /\ cmd[c].agent \in {"status", "http_error", "unreachable"}
              => (AckSuccess(cmd[c].acks[1]) <=> cmd[c].agent = "status")

\* C22: the step that sends a command's acknowledgment writes to the
\* sender's connection only: no other connection, of the same group or of
\* another, is acknowledged anything, written anything or queued anything
\* by it.
C22_AckOnlyToSender ==
    [][\A c \in Conns :
          (cons[c].h \in {"ack", "nack"} /\ cons'[c].h = "idle")
          => \A d \in Conns \ {c} :
                /\ cmd'[d] = cmd[d]
                /\ sent'[d] = sent[d]
                /\ chan'[d] = chan[d]]_vars

\* A subscriber has been acknowledged its command while another subscriber
\* of the same group, connected and idle, has been acknowledged nothing.
C22_Witness ==
    \E c, d \in Conns :
        /\ c # d
        /\ cons[c].kind = cons[d].kind
        /\ {c, d} \subseteq groups[GroupOf(cons[c].kind)]
        /\ cons[d].st = "run" /\ cons[d].peer = "up" /\ cons[d].h = "idle"
        /\ cmd[c].done /\ Len(cmd[c].acks) = 1
        /\ cmd[d].acks = <<>>

\* A body that is not JSON, or no JSON object, or an object without one of
\* the keys the view requires.
Lacking(body) ==
    \/ ~Parses(body)
    \/ ~IsObject(body)
    \/ \A g \in GroupNames : ~(required_keys(g) \subseteq Members(body, g))

\* C23: a push whose body is not JSON, or is no JSON object holding every
\* required key, is answered with an error and is not handed to group_send
\* (it gets no frame id, so nothing is queued for any subscriber), and a
\* push of a complete frame is accepted whatever was pushed before.
C23_IncompletePushRejected ==
    /\ (view.pc = "done" /\ Lacking(view.body))
       => (view.resp \in {"bad_json", "missing_keys", "error"} /\ view.id = 0)
    /\ (view.pc = "done" /\ view.body = "complete") => view.resp = "success"

\* C24: a frame of either signal source that is posted to the RF view is
\* accepted: the synthetic source's frame with two amplitude arrays and the
\* hardware source's frame with one.
C24_BothFrameShapesAccepted ==
    (view.pc = "done" /\ view.body \in {"complete", "hardware"})
    => (view.resp = "success" /\ view.id # 0)

\* C25: every message written to a connection of the RF route has type
\* "rf_simulated_data", and its payload is a frame the ingress accepted and
\* that was emitted to the group while the connection was a member.
C25_DeliveredAsPushed ==
    \A c \in Conns :
        cons[c].kind = "rf"
        => \A i \in 1..Len(sent[c]) :
              /\ sent[c][i].type = "rf_simulated_data"
              /\ sent[c][i].payload \in 1..Len(pushed)
              /\ sent[c][i].payload \in Range(owed[c])

\* A connection of the RF route has been written a frame.
C25_Witness ==
    \E c \in Conns :
        /\ cons[c].kind = "rf" /\ cons[c].st = "run"
        /\ Len(sent[c]) >= 1
        /\ pushed[sent[c][1].payload].body = "complete"

\* ------------------------------------------------ lengths of a frame
\* agent_hal.py 90, agent_hal_hardware.py 188 (180 for generated samples):
\* entries of "time_s".
TimeAxisLen(f) == f.n
\* agent_hal.py 93-107 (one sample per time point), agent_hal_hardware.py
\* 166 (the device's answer): entries of each amplitude sequence.
AmplitudeLen(f) == f.len
\* np.fft.rfft of the amplitude sequence: entries of "fft_power_dbm".
PowerLen(f) == (AmplitudeLen(f) \div 2) + 1
\* np.fft.rfftfreq over the same number of samples, cut to the spectrum's
\* length: entries of "fft_frequencies_hz".
FreqAxisLen(f) ==
    LET k == (AmplitudeLen(f) \div 2) + 1
    IN IF k < PowerLen(f) THEN k ELSE PowerLen(f)
\* wave_details.num_points_time and spectrum_details.num_points_fft
NumPointsTime(f) == IF variant = "sim" THEN f.n ELSE AmplitudeLen(f)
NumPointsFft(f) == FreqAxisLen(f)

\* The step between two timestamps of "time_s" as a fraction of ns:
\* np.linspace(0, duration, n, endpoint=False) steps by duration / n
\* (agent_hal.py 90, agent_hal_hardware.py 180); np.linspace(0, (n - 1) *
\* x_increment, n) steps by x_increment = 1 / sample_rate (hardware 186-188).
StepNum(f) == IF variant = "sim" \/ f.synthetic THEN f.dur ELSE PointsScale
StepDen(f) == IF variant = "sim" \/ f.synthetic THEN f.n ELSE f.rate

\* C26: the hardware source returns a frame only from samples the device
\* answered with; it never returns generated samples.
C26_HardwareFailsClosed ==
    \A t \in Threads : (variant = "hw" /\ fr[t].made) => ~fr[t].synthetic

\* C27: in every frame the time axis and each amplitude sequence have the
\* length the frame reports as num_points_time, and the frequency axis and
\* the power sequence have the length floor(N / 2) + 1 it reports as
\* num_points_fft.
C27_FrameLengthsAgree ==
    \A t \in Threads :
        fr[t].made =>
            /\ TimeAxisLen(fr[t]) = NumPointsTime(fr[t])
            /\ AmplitudeLen(fr[t]) = NumPointsTime(fr[t])
            /\ PowerLen(fr[t]) = (NumPointsTime(fr[t]) \div 2) + 1
            /\ FreqAxisLen(fr[t]) = PowerLen(fr[t])
            /\ NumPointsFft(fr[t]) = (NumPointsTime(fr[t]) \div 2) + 1

\* C28: a frame holds as many samples as the configuration's sample count
\* read by the same acquisition, and its timestamps are spaced by
\* 1 / sample_rate, with the rate the frame reports.
C28_BatchOfConfiguredCount ==
    \A t \in Threads :
        fr[t].made =>
            /\ AmplitudeLen(fr[t]) = fr[t].n
            /\ fr[t].n > 1 =>
                  StepNum(fr[t]) * fr[t].wd_rate = PointsScale * StepDen(fr[t])

\* C29: the timestamps of the frames written to a viewer never decrease
\* in the order the frames were written, whatever start, stop and
\* configure requests the agent has handled.
C29_TimestampsInDeliveryOrder ==
    \A c \in Conns :
        \A i, j \in 1..Len(sent[c]) :
            (i < j /\ sent[c][i].type = "rf_simulated_data"
                   /\ sent[c][j].type = "rf_simulated_data")
                => pushed[sent[c][i].payload].ts <= pushed[sent[c][j].payload].ts

\* C30: in every frame the largest value of the power sequence equals the
\* reference level the frame reports, and every bin is less than or equal
\* to it.
C30_MaxBinIsReferenceLevel ==
    norm.pc = "frame" =>
        /\ \E b \in 1..Len(norm.out) : FEq(norm.out[b], norm.ref)
        /\ \A b \in 1..Len(norm.out) : FLe(norm.out[b], norm.ref)

\* C31: the loop sleeps the full interval after each tick: a tick begins
\* no sooner than one interval after the tick before it ended, so the
\* n-th tick begins no sooner than n - 1 intervals plus the processing
\* time of all the ticks before it after the first tick began.
C31_FixedDelayAfterEachTick ==
    (tick.pc \in {"acquire", "push"} /\ tick.n >= 2) =>
        /\ tick.start >= tick.prev + sim_interval_seconds
        /\ tick.start >= tick.first + (tick.n - 1) * sim_interval_seconds + tick.busy

\* A second tick has begun after a first tick that took time.
C31_Witness ==
    /\ tick.pc \in {"acquire", "push"}
    /\ tick.n >= 2
    /\ tick.busy >= 1

\* C32: connect() does not raise, returns true or false and leaves the
\* connected flag equal to what it returned, also when the source was
\* connected already; disconnect() does not raise and leaves the source
\* not connected, also when it was not connected before.
C32_ConnectDisconnectSafe ==
    /\ call.op = "connect" =>
          /\ ~call.raised
          /\ call.ret \in {"true", "false"}
          /\ connected = (call.ret = "true")
    /\ call.op = "disconnect" => (~call.raised /\ ~connected)

\* The hardware source was disconnected although it held an open session.
C32_Witness ==
    /\ variant = "hw"
    /\ call.op = "disconnect"
    /\ call.was
    /\ Len(call.log) >= 2

C34_DefaultFrame ==
    \A t \in Threads :
        (fr[t].made /\ rf = DefaultConfig(variant)) =>
            /\ fr[t].n = 256
            /\ fr[t].wd_rate * 1000000 = 10000
            /\ \A i \in 0..2 : i * StepNum(fr[t]) = (i * 100000) * StepDen(fr[t])

\* C35: whatever configure requests have been handled, the stored sample
\* count is at least 1 (a request whose duration * rate truncates to zero
\* or less keeps the count stored before), and the loop's test of the
\* count never takes the no-data branch: after the test the time axis is
\* built.
C35_SampleCountPositive ==
    /\ [](rf.num_time_points >= 1)
    /\ [][\A t \in Threads :
             (thr[t] = "aq_n" /\ thr'[t] # "aq_n") => thr'[t] = "aq_time"]_vars

\* A configure request whose duration * rate is negative has been answered
\* while a loop was running, and the loop is at the test of the count.
C35_Witness ==
    /\ req[1].op = "configure" /\ req[1].pc = "done" /\ req[1].p = PNegSpan
    /\ req[1].resp = "configured"
    /\ \E t \in Threads : thr[t] = "aq_n"

\* C36: in the hardware variant the source is reconnected only while the
\* state is not Running (neither the loop nor a start request reconnects a
\* Running agent), and a tick that finds the source disconnected does not
\* go on to the device: it produces no frame.
C36_NoReconnectWhileRunning ==
    [][variant = "hw" =>
          /\ (~connected /\ connected') => ~Running
          /\ \A t \in Threads :
                (thr[t] = "aq_conn" /\ ~connected /\ thr'[t] # "aq_conn")
                    => thr'[t] \notin {"hw_io", "hw_chk", "hw_ret", "send"}]_vars

\* C37: in the hardware variant a configure call that reports failure
\* leaves the stored configuration as it was when the request arrived.
C37_FailedConfigureChangesNothing ==
    \A r \in Reqs :
        (variant = "hw" /\ req[r].op = "configure" /\ req[r].pc = "done"
                       /\ req[r].resp = "configure_failed")
            => rf = req[r].pre.rf


\* A start request that arrived with the flag set and the handle's thread
\* not alive.
RevivingStart(r) ==
    /\ req[r].op = "start"
    /\ req[r].pre.active
    /\ req[r].pre.thread # None
    /\ req[r].pre.thread \notin req[r].pre.alive

\* C39: a start request that finds the flag set and the handle's thread no
\* longer alive is not answered "already active": it is answered "started",
\* and when it has started the new thread exactly one loop is alive, the one
\* it spawned, and the flag is set.
C39_StartRevivesDeadLoop ==
    [][\A r \in Reqs :
          (RevivingStart(r) /\ req[r].pc # "done" /\ req'[r].pc = "done")
             => /\ req'[r].resp = "started"
                /\ AliveLoops' = {req[r].spawned}
                /\ sim_active']_vars


\* The connection is a member of the RF group.
JoinedRf(c) == c \in groups[RF_SPECTRUM_GROUP_NAME]

\* C38: under fair scheduling, whenever the state is Running, the source is
\* available and a connection is joined to the RF group, a frame newer than
\* all accepted so far is eventually written to that connection, unless it
\* leaves the group, the source becomes unavailable or the state stops
\* being Running; and a frame queued for a connection is eventually written
\* to it unless it leaves the group.
C38_FramesKeepArriving ==
    /\ \A k \in 0..(MaxPushes - 1) :
          (Running /\ connected /\ JoinedRf(1) /\ nemit = k /\ clock < MaxClock)
             ~> ((\E i \in 1..Len(sent[1]) : sent[1][i].payload > k)
                  \/ ~JoinedRf(1) \/ ~connected \/ ~Running)
    /\ \A id \in 1..MaxPushes :
          (id \in Range(owed[1])) ~> (id \in Range(SentIds(1)) \/ ~JoinedRf(1))

====
